---- MODULE Spec2Model ----
(***************************************************************************)
(* A model of the clap command-line parser: the lexer (token.py, lexer.py), *)
(* the conversion engine (converter.py), the argument registry (abc.py)    *)
(* and the parser (parser.py), together with the earlier deferred-option   *)
(* parser kept under src/clap.                                             *)
(*                                                                         *)
(* A Python str is modelled as a sequence of one-character strings, so     *)
(* that prefix tests, splitting and character classes are computed the way *)
(* the code computes them.                                                 *)
(***************************************************************************)
EXTENDS Integers, Sequences, FiniteSets, TLC

VARIABLES
    app,        \* parser.py: the root object handed to _parse_app
    input,      \* lexer.py: Lexer._input, the argument vector
    ctx,        \* parser.py: ParserContext (tokens cursor, state, buffer)
    reg,        \* abc.py: one node's all_subcommands table and its commands
    call,       \* abc.py: the registry call made last and its outcome
    conv,       \* converter.py: one convert() call and its outcome
    old,        \* src/clap/parser.py: ArgumentParser.parse() in progress
    opt,        \* abc.py, options.py: the option tables and Option objects
    run         \* parser.py: parse(), the dispatch of the results

vars == <<app, input, ctx, reg, call, conv, old, opt, run>>

(***************************************************************************)
(* Characters and strings                                                  *)
(***************************************************************************)
Digits == {"0", "1", "2", "3", "4", "5", "6", "7", "8", "9"}

UpperAlpha == {"F", "N", "T"}

LowerAlpha ==
    {"a", "b", "c", "d", "e", "f", "h", "i", "k", "l", "m", "n", "o", "p",
     "q", "r", "s", "t", "u", "v", "x", "y"}

\* str.isalpha() on one character
isalpha(c) == c \in LowerAlpha \cup UpperAlpha

\* str.isnumeric() on one character
isnumeric(c) == c \in Digits

\* str.isnumeric() on a whole string: non-empty and every character numeric
isnumeric_str(s) == Len(s) > 0 /\ \A i \in 1..Len(s) : isnumeric(s[i])

\* str.lower()
lower_char(c) ==
    CASE c = "F" -> "f"
      [] c = "N" -> "n"
      [] c = "T" -> "t"
      [] OTHER -> c

lower(s) == [i \in 1..Len(s) |-> lower_char(s[i])]

\* str.startswith(prefix)
startswith(s, p) == Len(s) >= Len(p) /\ SubSeq(s, 1, Len(p)) = p

\* s[n:] with n counted from 0
slice_from(s, n) == IF n >= Len(s) THEN <<>> ELSE SubSeq(s, n + 1, Len(s))

\* str.removeprefix(prefix)
removeprefix(s, p) == IF startswith(s, p) THEN slice_from(s, Len(p)) ELSE s

\* the 1-based index of the first occurrence of c in s, 0 when absent
find_char(s, c) ==
    IF \E i \in 1..Len(s) : s[i] = c
    THEN CHOOSE i \in 1..Len(s) : s[i] = c /\ \A j \in 1..(i - 1) : s[j] # c
    ELSE 0

\* str.replace(a, b) for single characters
replace_char(s, a, b) == [i \in 1..Len(s) |-> IF s[i] = a THEN b ELSE s[i]]

(***************************************************************************)
(* Values.  Every Python value the model handles is a record of one shape, *)
(* so that any two values can be compared.                                 *)
(***************************************************************************)
IntV(n) == [t |-> "int", i |-> n, s |-> <<>>]
BoolV(b) == [t |-> "bool", i |-> IF b THEN 1 ELSE 0, s |-> <<>>]
StrV(s) == [t |-> "str", i |-> 0, s |-> s]
NoneV == [t |-> "None", i |-> 0, s |-> <<>>]

\* sentinel.py: MISSING, the "no default" marker; bool(MISSING) is False
MISSING == [t |-> "MISSING", i |-> 0, s |-> <<>>]

\* Python truthiness, as used by `not option.default_value`
truthy(v) ==
    CASE v.t = "int" -> v.i # 0
      [] v.t = "bool" -> v.i = 1
      [] v.t = "str" -> Len(v.s) > 0
      [] OTHER -> FALSE

\* str(True) / str(False)
str_of_bool(b) == IF b THEN <<"T", "r", "u", "e">> ELSE <<"F", "a", "l", "s", "e">>

\* Python ==, where True == 1 and False == 0
py_eq(v, w) ==
    IF v.t \in {"int", "bool"} /\ w.t \in {"int", "bool"}
    THEN v.i = w.i
    ELSE v = w

DigitVal(c) ==
    CASE c = "0" -> 0 [] c = "1" -> 1 [] c = "2" -> 2 [] c = "3" -> 3
      [] c = "4" -> 4 [] c = "5" -> 5 [] c = "6" -> 6 [] c = "7" -> 7
      [] c = "8" -> 8 [] c = "9" -> 9 [] OTHER -> 0

RECURSIVE digits_value(_)
digits_value(s) ==
    IF Len(s) = 0 THEN 0
    ELSE 10 * digits_value(SubSeq(s, 1, Len(s) - 1)) + DigitVal(s[Len(s)])

\* int(s) succeeds on an optional sign followed by digits
int_ok(s) ==
    IF Len(s) > 0 /\ s[1] = "-" THEN isnumeric_str(slice_from(s, 1))
    ELSE isnumeric_str(s)

int_value(s) ==
    IF s[1] = "-" THEN 0 - digits_value(slice_from(s, 1)) ELSE digits_value(s)

(***************************************************************************)
(* Results of calls that may raise                                         *)
(***************************************************************************)
Ok(v) == [ok |-> TRUE, value |-> v, exc |-> "", msg |-> "", names |-> <<>>]

Raise(exc, msg, names) ==
    [ok |-> FALSE, value |-> NoneV, exc |-> exc, msg |-> msg, names |-> names]

(***************************************************************************)
(* token.py                                                                *)
(***************************************************************************)
\* TokenKind.from_string: the kind of a raw argument.  NOT_IMPLEMENTED stands
\* for the NotImplementedError raised on "-" followed by a symbol.
\* from_string without the test for a digit after the "-"
from_string_alpha_only(value) ==
    IF startswith(value, <<"-", "-">>)
    THEN IF value = <<"-", "-">> THEN "ESCAPE" ELSE "LONG"
    ELSE IF startswith(value, <<"-">>)
         THEN IF slice_from(value, 1) = <<>> THEN "STDIN" ELSE "SHORT"
         ELSE "ARGUMENT"

from_string(value) ==
    IF startswith(value, <<"-", "-">>)
    THEN IF value = <<"-", "-">> THEN "ESCAPE" ELSE "LONG"
    ELSE IF startswith(value, <<"-">>)
         THEN LET remainder == slice_from(value, 1) IN
              IF remainder = <<>> THEN "STDIN"
              ELSE IF isalpha(remainder[1]) THEN "SHORT"
              ELSE IF isnumeric(remainder[1]) THEN "ARGUMENT"
              ELSE "NOT_IMPLEMENTED"
         ELSE "ARGUMENT"

Token(kind, literal) == [kind |-> kind, literal |-> literal]

\* the `None` returned by peek() at the end of the input
NoToken == [kind |-> "None", literal |-> <<>>]

RawOption(key, value) == [key |-> key, value |-> value]

\* Token.as_long_option: split on the first "="
as_long_option(literal) ==
    LET remainder == removeprefix(literal, <<"-", "-">>)
        eq == find_char(remainder, "=")
    IN  IF eq > 0
        THEN RawOption(SubSeq(remainder, 1, eq - 1), slice_from(remainder, eq))
        ELSE RawOption(remainder, <<>>)

\* Token.as_short_option, the loop over `remainder` from 1-based `index`,
\* with `options` the pairs collected so far
RECURSIVE short_option_loop(_, _, _)
short_option_loop(remainder, index, options) ==
    IF index > Len(remainder) THEN Ok(options)
    ELSE
      LET key == remainder[index]
          has_next == index + 1 <= Len(remainder)
      IN  IF ~has_next \/ isalpha(remainder[index + 1])
          THEN short_option_loop(remainder, index + 1,
                                 Append(options, RawOption(<<key>>, <<>>)))
          ELSE IF isnumeric(remainder[index + 1])
          THEN LET value == slice_from(remainder, index) IN
               IF ~isnumeric_str(value)
               THEN Raise("ArgumentError", "expected value to be numeric",
                          <<<<key>>>>)
               ELSE Ok(Append(options, RawOption(<<key>>, value)))
          ELSE IF remainder[index + 1] = "="
          THEN Ok(Append(options,
                         RawOption(<<key>>, slice_from(remainder, index + 1))))
          ELSE Raise("NotImplementedError", "unexpected option", <<<<key>>>>)

\* as_short_option reading every character of the stack as a flag
as_short_option_flags_only(literal) ==
    LET remainder == removeprefix(literal, <<"-">>) IN
    Ok([i \in 1..Len(remainder) |-> RawOption(<<remainder[i]>>, <<>>)])

as_short_option(literal) ==
    LET remainder == removeprefix(literal, <<"-">>) IN
    IF remainder = <<>> THEN Ok(<<RawOption(<<>>, <<>>)>>)
    ELSE short_option_loop(remainder, 1, <<>>)

(***************************************************************************)
(* lexer.py                                                                *)
(***************************************************************************)
\* LexerIterator.__next__ at 0-based `position`: the token there, NoToken
\* for StopIteration.  The caller advances the position.
lexer_next(inp, position) ==
    IF position >= Len(inp) THEN NoToken
    ELSE Token(from_string(inp[position + 1]), inp[position + 1])

\* LexerIterator.peek: the next token, the position left as it was
lexer_peek(inp, position) == lexer_next(inp, position)

(***************************************************************************)
(* converter.py                                                            *)
(***************************************************************************)
\* A target type is named by a string; TypeDef gives what typing.get_origin
\* and typing.get_args report for it.
PlainType == [origin |-> "None", args |-> <<>>, literals |-> <<>>]

TypeDef(tp) ==
    CASE tp = "int|bool" ->
           [origin |-> "Union", args |-> <<"int", "bool">>, literals |-> <<>>]
      [] tp = "bool|int" ->
           [origin |-> "Union", args |-> <<"bool", "int">>, literals |-> <<>>]
      [] tp = "int|None" ->
           [origin |-> "Union", args |-> <<"int", "NoneType">>, literals |-> <<>>]
      [] tp = "int|Literal[1,11]" ->
           [origin |-> "Union", args |-> <<"int", "Literal[1,11]">>,
            literals |-> <<>>]
      [] tp = "Literal['true','1']" ->
           [origin |-> "Literal", args |-> <<>>,
            literals |-> <<StrV(<<"t", "r", "u", "e">>), StrV(<<"1">>)>>]
      [] tp = "Literal[1,11]" ->
           [origin |-> "Literal", args |-> <<>>,
            literals |-> <<IntV(1), IntV(11)>>]
      [] OTHER -> PlainType

\* the name of a type, as a str
type_name(tp) ==
    CASE tp = "int" -> <<"i", "n", "t">>
      [] tp = "bool" -> <<"b", "o", "o", "l">>
      [] tp = "str" -> <<"s", "t", "r">>
      [] tp = "NoneType" -> <<"N", "o", "n", "e", "T", "y", "p", "e">>
      [] TypeDef(tp).origin = "Literal" -> <<"L", "i", "t", "e", "r", "a", "l">>
      [] OTHER -> <<"t", "y", "p", "e">>

\* converter(argument) for a plain class; bool is handled by the caller
call_constructor(tp, argument) ==
    CASE tp = "int" ->
           IF int_ok(argument) THEN Ok(IntV(int_value(argument)))
           ELSE Raise("ValueError", "invalid literal for int()", <<argument>>)
      [] tp = "str" -> Ok(StrV(argument))
      [] OTHER -> Raise("TypeError", "not a constructor", <<argument>>)

\* the `converter is bool` branch of convert
convert_bool(argument) ==
    LET a == lower(argument) IN
    IF a \in {<<"y", "e", "s">>, <<"y">>, <<"t", "r", "u", "e">>, <<"t">>, <<"1">>}
    THEN Ok(BoolV(TRUE))
    ELSE IF a \in {<<"n", "o">>, <<"n">>, <<"f", "a", "l", "s", "e">>, <<"f">>,
                   <<"0">>}
    THEN Ok(BoolV(FALSE))
    ELSE Raise("ArgumentError", "unable to convert to 'bool'", <<argument>>)

\* the message naming the candidate tried last only
args_tried_last(args) == <<type_name(args[Len(args)])>>

\* the names of the union's candidates, as listed in the error message
RECURSIVE args_tried(_)
args_tried(args) ==
    IF args = <<>> THEN <<>> ELSE <<type_name(Head(args))>> \o args_tried(Tail(args))

\* ', '.join(args) over the literals: str.join accepts str items only
join_literals(literals) ==
    IF \A i \in 1..Len(literals) : literals[i].t = "str"
    THEN Ok(StrV([i \in 1..Len(literals) |-> literals[i].s]))
    ELSE Raise("TypeError", "sequence item: expected str instance", <<>>)

\* the failure of the Literal branch: the message is built before the raise
literal_failure(argument, literals) ==
    LET joined == join_literals(literals) IN
    IF joined.ok
    THEN Raise("ArgumentError", "expected to be one of",
               <<argument>> \o joined.value.s)
    ELSE joined

RECURSIVE convert(_, _, _), convert_union(_, _, _, _), convert_literal(_, _, _, _)

\* the loop over the candidates of a union taking them from the last one
convert_union_last_first(argument, args, default_value, k) ==
    IF k > Len(args)
    THEN Raise("ArgumentError", "unable to convert into one of",
               <<argument>> \o args_tried(args))
    ELSE LET r == convert(argument, args[Len(args) + 1 - k], default_value) IN
         IF r.ok THEN r ELSE convert_union(argument, args, default_value, k + 1)

\* the loop over the candidates of a union, from the 1-based index k
convert_union(argument, args, default_value, k) ==
    IF k > Len(args)
    THEN Raise("ArgumentError", "unable to convert into one of",
               <<argument>> \o args_tried(args))
    ELSE IF args[k] = "None"
    THEN Ok(IF default_value = MISSING THEN NoneV ELSE default_value)
    ELSE LET r == convert(argument, args[k], default_value) IN
         IF r.ok THEN r ELSE convert_union(argument, args, default_value, k + 1)

\* the loop over the literals of a Literal, from the 1-based index k:
\* convert with type(arg), skip on any exception, return on value == arg
convert_literal(argument, literals, default_value, k) ==
    IF k > Len(literals)
    THEN literal_failure(argument, literals)
    ELSE LET r == convert(argument, literals[k].t, default_value) IN
         IF r.ok /\ py_eq(r.value, literals[k]) THEN r
         ELSE convert_literal(argument, literals, default_value, k + 1)

\* converter.convert(argument=, converter=, default_value=)
convert(argument, converter, default_value) ==
    LET d == TypeDef(converter) IN
    IF d.origin = "Union"
    THEN convert_union(argument, d.args, default_value, 1)
    ELSE IF d.origin = "Literal"
    THEN convert_literal(argument, d.literals, default_value, 1)
    ELSE IF converter = "bool"
    THEN convert_bool(argument)
    ELSE LET r == call_constructor(converter, argument) IN
         IF r.ok THEN r
         ELSE Raise("ArgumentError", "unable to convert",
                    <<argument, type_name(converter)>>)

(***************************************************************************)
(* The registry the parser reads: names, options and command nodes         *)
(***************************************************************************)
n_help == <<"h", "e", "l", "p">>
n_port == <<"p", "o", "r", "t">>
n_verbose == <<"v", "e", "r", "b", "o", "s", "e">>
n_all == <<"a", "l", "l">>
n_brief == <<"b", "r", "i", "e", "f">>
n_color == <<"c", "o", "l", "o", "r">>
n_skip_empty == <<"s", "k", "i", "p", "-", "e", "m", "p", "t", "y">>
n_name == <<"n", "a", "m", "e">>
n_server == <<"s", "e", "r", "v", "e", "r">>
n_hello == <<"h", "e", "l", "l", "o">>
n_move == <<"m", "o", "v", "e">>
n_run == <<"r", "u", "n">>

\* option.py: Option(name=, target_type=, default_value=, short=);
\* short is <<>> for None
Option(name, short, target_type, default_value) ==
    [name |-> name, short |-> short, target_type |-> target_type,
     default_value |-> default_value]

\* option.py: DEFAULT_HELP
DEFAULT_HELP == Option(n_help, <<"h">>, "bool", BoolV(FALSE))

opt_port == Option(n_port, <<"p">>, "int", MISSING)
opt_verbose == Option(n_verbose, <<"v">>, "bool", BoolV(FALSE))
opt_all == Option(n_all, <<"a">>, "bool", MISSING)
opt_brief == Option(n_brief, <<"b">>, "bool", BoolV(FALSE))
opt_color == Option(n_color, <<"c">>, "bool", BoolV(FALSE))
opt_skip_empty == Option(n_skip_empty, <<"s">>, "str", MISSING)
opt_output == Option(<<"o", "u", "t", "p", "u", "t">>, <<"o">>, "str", MISSING)

\* positional.py: PositionalArgument(name=, target_type=, default_value=)
PositionalArgument(name, target_type, default_value) ==
    [name |-> name, target_type |-> target_type, default_value |-> default_value]

\* The command nodes: an Application whose subcommands are the group
\* `server` (holding the leaf `hello`) and the leaves `move` and `run`, and
\* a Script, a root that takes positionals itself.
NodeKind(n) ==
    CASE n = "app" -> "Application"
      [] n = "server" -> "Group"
      [] n = "script" -> "Script"
      [] OTHER -> "Subcommand"

\* isinstance(command, abc.SupportsSubcommands)
SupportsSubcommands(n) == NodeKind(n) \in {"Application", "Group"}

\* isinstance(command, abc.SupportsPositionalArguments)
SupportsPositionalArguments(n) == NodeKind(n) \in {"Subcommand", "Script"}

\* the options added to node n, in the order add_option was called
declared_options(n) ==
    CASE n = "run" -> <<opt_verbose, opt_port, opt_skip_empty, DEFAULT_HELP>>
      [] n = "script" ->
           <<opt_port, opt_all, opt_brief, opt_color, opt_skip_empty, opt_output,
             DEFAULT_HELP>>
      [] OTHER -> <<DEFAULT_HELP>>

\* SupportsOptions.add_option on a table without collisions: the option
\* under its name and, when it has one, under its short alias
RECURSIVE option_table(_)
option_table(options) ==
    IF options = <<>> THEN <<>>
    ELSE LET o == Head(options)
             rest == option_table(Tail(options))
         IN  IF o.short = <<>> THEN (o.name :> o) @@ rest
             ELSE (o.name :> o) @@ (o.short :> o) @@ rest

\* node.all_options
all_options(n) == option_table(declared_options(n))

\* node.all_subcommands of the nodes that support subcommands
all_subcommands(n) ==
    CASE n = "app" -> (n_server :> "server") @@ (n_move :> "move") @@ (n_run :> "run")
      [] n = "server" -> (n_hello :> "hello")
      [] OTHER -> <<>>

\* node.positional_arguments of the nodes that support positionals
positional_arguments(n) ==
    CASE n = "hello" -> <<PositionalArgument(n_name, "str", MISSING)>>
      [] n = "move" -> <<PositionalArgument(<<"n">>, "int", MISSING)>>
      [] n = "run" -> <<PositionalArgument(<<"a", "r", "g">>, "str", MISSING)>>
      [] n = "script" -> <<PositionalArgument(n_name, "str", MISSING)>>
      [] OTHER -> <<>>

\* parser.py:97: the keyword a bound option is stored under, snake_case(name)
parameter_name(option) == replace_char(option.name, "-", "_")

(***************************************************************************)
(* parser.py                                                               *)
(***************************************************************************)
NoError == [exc |-> "", msg |-> "", names |-> <<>>]

\* the command nodes
Nodes == {"app", "server", "hello", "move", "run", "script"}

\* the command objects as they are once the application is built: what
\* state.command and the results' command fields refer to
Registry ==
    [n \in Nodes |-> [all_options |-> all_options(n),
                      all_subcommands |-> all_subcommands(n),
                      positional_arguments |-> positional_arguments(n)]]

\* ParsedArgs(command=command): nothing bound yet
ParsedArgs(command) == [command |-> command, args |-> <<>>, kwargs |-> <<>>]

\* ParserContext(tokens=, state=ParsedArgs(command=app), buffer=[]); `tokens`
\* is the position of the lexer iterator, `registry` the objects reached
\* through the command references
ParserContext(root) ==
    [tokens |-> 0, state |-> ParsedArgs(root), buffer |-> <<>>,
     status |-> "running", error |-> NoError, registry |-> Registry]

\* an exception leaving the handlers: the parse stops where it is
raise(c, exc, msg, names) ==
    [c EXCEPT !.status = "error",
              !.error = [exc |-> exc, msg |-> msg, names |-> names]]

\* SupportsConvert.convert of an option or positional
option_convert(option, argument) ==
    convert(argument, option.target_type, option.default_value)

\* bind_option rebinding kwargs to the one option instead of adding to it
bind_option_replacing(c, option, value_raw) ==
    LET r == option_convert(option, value_raw) IN
    IF ~r.ok THEN raise(c, r.exc, r.msg, r.names)
    ELSE [c EXCEPT !.state.kwargs = (parameter_name(option) :> r.value)]

\* bind_option that also takes the bound option out of the command's table
bind_option_consuming(c, option, value_raw) ==
    LET r == option_convert(option, value_raw)
        table == c.registry[c.state.command].all_options
    IN  IF ~r.ok THEN raise(c, r.exc, r.msg, r.names)
        ELSE [c EXCEPT
                !.state.kwargs = (parameter_name(option) :> r.value) @@ @,
                !.registry[c.state.command].all_options =
                    [k \in {x \in DOMAIN table : table[x] # option} |-> table[k]]]

\* ctx.state.kwargs[option.parameter_name] = option.convert(value_raw)
bind_option(c, option, value_raw) ==
    LET r == option_convert(option, value_raw) IN
    IF ~r.ok THEN raise(c, r.exc, r.msg, r.names)
    ELSE [c EXCEPT !.state.kwargs = (parameter_name(option) :> r.value) @@ @]

\* _handle_token_long without the branch for bool: a flag is given the
\* following argument as its value, as any other option is
handle_token_long_valued(c, inp, literal, next_token_in) ==
    LET next_token ==
            IF next_token_in.kind # "ARGUMENT" THEN NoToken ELSE next_token_in
        option_raw == as_long_option(literal)
        table == c.registry[c.state.command].all_options
    IN  IF option_raw.key \notin DOMAIN table
        THEN raise(c, "ArgumentError", "unknown option", <<option_raw.key>>)
        ELSE
          LET option == table[option_raw.key] IN
          IF option_raw.value = <<>>
          THEN IF next_token = NoToken
               THEN raise(c, "ArgumentError", "expected value for option",
                          <<option.name>>)
               ELSE bind_option([c EXCEPT !.tokens = @ + 1], option,
                                next_token.literal)
          ELSE bind_option(c, option, option_raw.value)

\* _handle_token_long(ctx, token=, next_token=)
handle_token_long(c, inp, literal, next_token_in) ==
    LET next_token ==
            IF next_token_in.kind # "ARGUMENT" THEN NoToken ELSE next_token_in
        option_raw == as_long_option(literal)
        table == c.registry[c.state.command].all_options
    IN  IF option_raw.key \notin DOMAIN table
        THEN raise(c, "ArgumentError", "unknown option", <<option_raw.key>>)
        ELSE
          LET option == table[option_raw.key] IN
          IF option_raw.value = <<>>
          THEN IF option.target_type = "bool"
               THEN bind_option(c, option,
                                str_of_bool(~truthy(option.default_value)))
               ELSE IF next_token = NoToken
               THEN raise(c, "ArgumentError", "expected value for option",
                          <<option.name>>)
               ELSE \* _ = next(ctx.tokens)
                    LET taken == lexer_next(inp, c.tokens) IN
                    IF taken = NoToken
                    THEN raise(c, "StopIteration", "", <<>>)
                    ELSE IF taken.kind = "NOT_IMPLEMENTED"
                    THEN raise([c EXCEPT !.tokens = @ + 1],
                               "NotImplementedError", "", <<taken.literal>>)
                    ELSE bind_option([c EXCEPT !.tokens = @ + 1], option,
                                     next_token.literal)
          ELSE bind_option(c, option, option_raw.value)

\* the loop of _handle_token_short over the pairs of the stack
RECURSIVE short_loop(_, _, _, _)
short_loop(c, inp, pairs, next_token) ==
    IF pairs = <<>> \/ c.status # "running" THEN c
    ELSE
      LET key == Head(pairs).key
          value == Head(pairs).value
          table == c.registry[c.state.command].all_options
      IN  IF key \notin DOMAIN table
          THEN raise(c, "ArgumentError", "unknown option", <<key>>)
          ELSE
            LET option == table[key]
                long == <<"-", "-">> \o replace_char(option.name, "-", "_")
                literal == IF value # <<>> THEN long \o <<"=">> \o value ELSE long
            IN  short_loop(handle_token_long(c, inp, literal, next_token),
                           inp, Tail(pairs), next_token)

\* _handle_token_short(ctx, token=, next_token=)
handle_token_short(c, inp, literal, next_token) ==
    LET pairs == as_short_option(literal) IN
    IF ~pairs.ok THEN raise(c, pairs.exc, pairs.msg, pairs.names)
    ELSE short_loop(c, inp, pairs.value, next_token)

\* argument.target_type(argument_raw): the type called as a constructor
call_target_type(tp, argument) ==
    IF TypeDef(tp).origin # "None"
    THEN Raise("TypeError", "object is not callable", <<argument>>)
    ELSE IF tp = "bool" THEN Ok(BoolV(Len(argument) > 0))
    ELSE call_constructor(tp, argument)

\* f"expected {expected} argument{plural}, got {actual}"
too_many_arguments(expected, actual) ==
    LET plural == IF expected = 1 THEN "" ELSE "s" IN
    "expected " \o ToString(expected) \o " argument" \o plural
        \o ", got " \o ToString(actual)

\* _handle_token_argument that lets a token beyond the declared positionals
\* pass without binding it
handle_token_argument_dropping(c, token) ==
    IF token.kind # "ARGUMENT"
    THEN raise(c, "AssertionError", "token.is_argument()", <<token.literal>>)
    ELSE
      LET argument_raw == token.literal
          command == c.state.command
      IN  IF SupportsSubcommands(command)
          THEN IF argument_raw \notin DOMAIN c.registry[command].all_subcommands
               THEN raise(c, "ArgumentError", "is not a valid command",
                          <<argument_raw>>)
               ELSE [c EXCEPT !.buffer = Append(@, c.state),
                              !.state = ParsedArgs(
                                  c.registry[command].all_subcommands[argument_raw])]
          ELSE
            LET index == Len(c.state.args) IN
            IF index >= Len(c.registry[command].positional_arguments)
            THEN c
            ELSE
              LET argument == c.registry[command].positional_arguments[index + 1]
                  r == call_target_type(argument.target_type, argument_raw)
              IN  IF ~r.ok THEN raise(c, r.exc, r.msg, r.names)
                  ELSE [c EXCEPT !.state.args = Append(@, r.value)]

\* _handle_token_argument that starts the child's state without saving the
\* state of the command it leaves
handle_token_argument_unsaved(c, token) ==
    IF token.kind # "ARGUMENT"
    THEN raise(c, "AssertionError", "token.is_argument()", <<token.literal>>)
    ELSE
      LET argument_raw == token.literal
          command == c.state.command
      IN  IF SupportsSubcommands(command)
          THEN IF argument_raw \notin DOMAIN c.registry[command].all_subcommands
               THEN raise(c, "ArgumentError", "is not a valid command",
                          <<argument_raw>>)
               ELSE [c EXCEPT !.state = ParsedArgs(
                                  c.registry[command].all_subcommands[argument_raw])]
          ELSE
            LET index == Len(c.state.args) IN
            IF index >= Len(c.registry[command].positional_arguments)
            THEN raise(c, "ArgumentError",
                       too_many_arguments(Len(c.registry[command].positional_arguments),
                                          Len(c.state.args) + 1), <<>>)
            ELSE
              LET argument == c.registry[command].positional_arguments[index + 1]
                  r == call_target_type(argument.target_type, argument_raw)
              IN  IF ~r.ok THEN raise(c, r.exc, r.msg, r.names)
                  ELSE [c EXCEPT !.state.args = Append(@, r.value)]

\* _handle_token_argument(ctx, token=)
handle_token_argument(c, token) ==
    IF token.kind # "ARGUMENT"
    THEN raise(c, "AssertionError", "token.is_argument()", <<token.literal>>)
    ELSE
      LET argument_raw == token.literal
          command == c.state.command
      IN  IF SupportsSubcommands(command)
          THEN IF argument_raw \notin DOMAIN c.registry[command].all_subcommands
               THEN raise(c, "ArgumentError", "is not a valid command",
                          <<argument_raw>>)
               ELSE [c EXCEPT !.buffer = Append(@, c.state),
                              !.state = ParsedArgs(
                                  c.registry[command].all_subcommands[argument_raw])]
          ELSE
            LET index == Len(c.state.args) IN
            IF index >= Len(c.registry[command].positional_arguments)
            THEN raise(c, "ArgumentError",
                       too_many_arguments(Len(c.registry[command].positional_arguments),
                                          Len(c.state.args) + 1), <<>>)
            ELSE
              LET argument == c.registry[command].positional_arguments[index + 1]
                  r == call_target_type(argument.target_type, argument_raw)
              IN  IF ~r.ok THEN raise(c, r.exc, r.msg, r.names)
                  ELSE [c EXCEPT !.state.args = Append(@, r.value)]

\* the `for token in ctx.tokens` loop of _handle_token_escape
RECURSIVE escape_loop(_, _)
escape_loop(c, inp) ==
    IF c.status # "running" THEN c
    ELSE
      LET token == lexer_next(inp, c.tokens) IN
      IF token = NoToken THEN c
      ELSE IF token.kind = "NOT_IMPLEMENTED"
      THEN raise([c EXCEPT !.tokens = @ + 1], "NotImplementedError", "",
                 <<token.literal>>)
      ELSE escape_loop(handle_token_argument([c EXCEPT !.tokens = @ + 1], token),
                       inp)

\* _handle_token_escape(ctx)
handle_token_escape(c, inp) ==
    IF SupportsSubcommands(c.state.command) THEN c ELSE escape_loop(c, inp)

\* Token.is_long_option / Token.is_short_option, which _handle_token asserts
\* and token.py does not define: taken to test the kind, as is_argument does
is_long_option(token) == token.kind = "LONG"
is_short_option(token) == token.kind = "SHORT"

\* Token.is_escape / Token.is_stdin
is_escape(token) == token.literal = <<"-", "-">>
is_stdin(token) == token.literal = <<"-">>

\* _handle_token(ctx, token=, next_token=): each case asserts the token's
\* predicate before it calls the handler
handle_token(c, inp, token, next_token) ==
    CASE token.kind = "LONG" ->
           IF ~is_long_option(token)
           THEN raise(c, "AssertionError", "token.is_long_option()", <<>>)
           ELSE handle_token_long(c, inp, token.literal, next_token)
      [] token.kind = "SHORT" ->
           IF ~is_short_option(token)
           THEN raise(c, "AssertionError", "token.is_short_option()", <<>>)
           ELSE handle_token_short(c, inp, token.literal, next_token)
      [] token.kind = "ARGUMENT" -> handle_token_argument(c, token)
      [] token.kind = "ESCAPE" ->
           IF ~is_escape(token)
           THEN raise(c, "AssertionError", "token.is_escape()", <<>>)
           ELSE handle_token_escape(c, inp)
      [] token.kind = "STDIN" ->
           IF ~is_stdin(token)
           THEN raise(c, "AssertionError", "token.is_stdin()", <<>>)
           ELSE raise(c, "NotImplementedError", "", <<token.literal>>)

\* the turn of the loop with a peek() that does not restore the position
parse_step_peek_advancing(c, inp) ==
    LET token == lexer_next(inp, c.tokens) IN
    IF token = NoToken
    THEN [c EXCEPT !.buffer = Append(@, c.state), !.status = "done"]
    ELSE
      LET c1 == [c EXCEPT !.tokens = @ + 1] IN
      IF token.kind = "NOT_IMPLEMENTED"
      THEN raise(c1, "NotImplementedError", "", <<token.literal>>)
      ELSE
        LET next_token == lexer_peek(inp, c1.tokens) IN
        IF next_token.kind = "NOT_IMPLEMENTED"
        THEN raise(c1, "NotImplementedError", "", <<next_token.literal>>)
        ELSE IF next_token = NoToken THEN handle_token(c1, inp, token, next_token)
        ELSE handle_token([c1 EXCEPT !.tokens = @ + 1], inp, token, next_token)

\* one turn of the `for token in tokens` loop of _parse_app, its `else`
\* branch included: take the token, peek at the one after it, handle it
parse_step(c, inp) ==
    LET token == lexer_next(inp, c.tokens) IN
    IF token = NoToken
    THEN [c EXCEPT !.buffer = Append(@, c.state), !.status = "done"]
    ELSE
      LET c1 == [c EXCEPT !.tokens = @ + 1] IN
      IF token.kind = "NOT_IMPLEMENTED"
      THEN raise(c1, "NotImplementedError", "", <<token.literal>>)
      ELSE
        LET next_token == lexer_peek(inp, c1.tokens) IN
        IF next_token.kind = "NOT_IMPLEMENTED"
        THEN raise(c1, "NotImplementedError", "", <<next_token.literal>>)
        ELSE handle_token(c1, inp, token, next_token)

\* _parse_app(app, input) run to its end from the context c
RECURSIVE parse_from(_, _)
parse_from(c, inp) ==
    IF c.status # "running" THEN c ELSE parse_from(parse_step(c, inp), inp)

parse_app(root, inp) == parse_from(ParserContext(root), inp)

(***************************************************************************)
(* The parse of one argument vector, one token handler per step            *)
(***************************************************************************)
MaxArgs == 3

w_Nic == <<"N", "i", "c">>
w_5 == <<"5">>
w_neg5 == <<"-", "5">>
w_escape == <<"-", "-">>
w_stdin == <<"-">>
w_symbol == <<"-", "=">>
w_not_an_option ==
    <<"-", "-", "n", "o", "t", "-", "a", "n", "-", "o", "p", "t", "i", "o", "n">>
w_long_verbose == <<"-", "-">> \o n_verbose
w_long_port == <<"-", "-">> \o n_port
w_long_port_5 == <<"-", "-">> \o n_port \o <<"=", "5">>
w_long_all == <<"-", "-">> \o n_all
w_p == <<"-", "p">>
w_s == <<"-", "s">>
w_v == <<"-", "v">>
w_abc == <<"-", "a", "b", "c">>
w_p8080 == <<"-", "p", "8", "0", "8", "0">>

\* the raw arguments tried against the Application
AppWords ==
    {n_server, n_hello, n_move, n_run, w_Nic, w_neg5, w_escape, w_stdin,
     w_not_an_option, w_long_verbose, w_long_port_5, w_v, w_symbol}

\* the raw arguments tried against the Script
ScriptWords ==
    {w_p, w_s, w_5, w_neg5, w_Nic, w_long_port, w_long_port_5, w_long_all,
     w_abc, w_p8080, w_escape, w_stdin, w_symbol}

Words(root) == IF root = "app" THEN AppWords ELSE ScriptWords

\* the argument vectors of at most n words
Vectors(words, n) == UNION {[1..k -> words] : k \in 0..n}

IdleReg == [table |-> <<>>, aliases |-> <<>>, parent |-> <<>>]
IdleCall == [op |-> "none"]
IdleConv == [status |-> "idle"]
IdleOld == [status |-> "idle"]
IdleOpt == [impl |-> "none"]
IdleRun == [phase |-> "idle"]

Init ==
    /\ app \in {"app", "script"}
    /\ input \in Vectors(Words(app), MaxArgs)
    /\ ctx = ParserContext(app)
    /\ opt = IdleOpt
    /\ run = IdleRun
    /\ reg = IdleReg
    /\ call = IdleCall
    /\ conv = IdleConv
    /\ old = IdleOld

\* the token the loop of _parse_app takes next, and the one peek() shows
CurrentToken == lexer_next(input, ctx.tokens)
PeekedToken == lexer_peek(input, ctx.tokens + 1)

\* one turn of the loop whose token goes to _handle_token_long
HandleTokenLong ==
    /\ ctx.status = "running"
    /\ CurrentToken.kind = "LONG"
    /\ PeekedToken.kind # "NOT_IMPLEMENTED"
    /\ ctx' = parse_step(ctx, input)
    /\ UNCHANGED <<app, input, reg, call, conv, old, opt, run>>

\* one turn of the loop whose token goes to _handle_token_short
HandleTokenShort ==
    /\ ctx.status = "running"
    /\ CurrentToken.kind = "SHORT"
    /\ PeekedToken.kind # "NOT_IMPLEMENTED"
    /\ ctx' = parse_step(ctx, input)
    /\ UNCHANGED <<app, input, reg, call, conv, old, opt, run>>

\* one turn of the loop whose token goes to _handle_token_argument
HandleTokenArgument ==
    /\ ctx.status = "running"
    /\ CurrentToken.kind = "ARGUMENT"
    /\ PeekedToken.kind # "NOT_IMPLEMENTED"
    /\ ctx' = parse_step(ctx, input)
    /\ UNCHANGED <<app, input, reg, call, conv, old, opt, run>>

\* one turn of the loop whose token goes to _handle_token_escape
HandleTokenEscape ==
    /\ ctx.status = "running"
    /\ CurrentToken.kind = "ESCAPE"
    /\ PeekedToken.kind # "NOT_IMPLEMENTED"
    /\ ctx' = parse_step(ctx, input)
    /\ UNCHANGED <<app, input, reg, call, conv, old, opt, run>>

\* one turn of the loop whose token goes to the STDIN case of _handle_token
HandleTokenStdin ==
    /\ ctx.status = "running"
    /\ CurrentToken.kind = "STDIN"
    /\ PeekedToken.kind # "NOT_IMPLEMENTED"
    /\ ctx' = parse_step(ctx, input)
    /\ UNCHANGED <<app, input, reg, call, conv, old, opt, run>>

\* TokenKind.from_string raises while the loop takes or peeks a token
LexerRaises ==
    /\ ctx.status = "running"
    /\ CurrentToken # NoToken
    /\ "NOT_IMPLEMENTED" \in {CurrentToken.kind, PeekedToken.kind}
    /\ ctx' = parse_step(ctx, input)
    /\ UNCHANGED <<app, input, reg, call, conv, old, opt, run>>

\* the `else` of the loop: out of tokens, the last state is saved
OutOfTokens ==
    /\ ctx.status = "running"
    /\ CurrentToken = NoToken
    /\ ctx' = parse_step(ctx, input)
    /\ UNCHANGED <<app, input, reg, call, conv, old, opt, run>>

Next ==
    \/ HandleTokenLong
    \/ HandleTokenShort
    \/ HandleTokenArgument
    \/ HandleTokenEscape
    \/ HandleTokenStdin
    \/ LexerRaises
    \/ OutOfTokens

Spec == Init /\ [][Next]_vars

\* the command lines of the script with the stack -po, whose options port
\* and output both take a value
w_po == <<"-", "p", "o">>

StackWords == {w_po, w_5, w_Nic, w_long_all, w_escape, w_stdin, w_symbol}

InitStack ==
    /\ app = "script"
    /\ input \in Vectors(StackWords, MaxArgs)
    /\ ctx = ParserContext(app)
    /\ opt = IdleOpt
    /\ run = IdleRun
    /\ reg = IdleReg
    /\ call = IdleCall
    /\ conv = IdleConv
    /\ old = IdleOld

SpecStack == InitStack /\ [][Next]_vars

\* the loop of _parse_app runs on: a turn that can be taken is taken.  This
\* is WF_vars(Next), written with what ENABLED <<Next>>_vars amounts to: a
\* turn can be taken exactly while the parse is running.
LoopRunsOn == []<>(ctx.status # "running") \/ []<><<Next>>_vars

SpecLive == Init /\ [][Next]_vars /\ LoopRunsOn

(***************************************************************************)
(* The parse of [s], [move, s] and [s, move] for every raw string s over a *)
(* small alphabet: the lexer's classification under every leading shape    *)
(***************************************************************************)
MaxRawLen == 4

RawChars == {"-", "5", "0", "a", "="}

RawStrings == UNION {[1..k -> RawChars] : k \in 0..MaxRawLen}

InitRaw ==
    /\ app = "app"
    /\ \E raw \in RawStrings :
           input \in {<<raw>>, <<n_move, raw>>, <<raw, n_move>>}
    /\ ctx = ParserContext(app)
    /\ opt = IdleOpt
    /\ run = IdleRun
    /\ reg = IdleReg
    /\ call = IdleCall
    /\ conv = IdleConv
    /\ old = IdleOld

SpecRaw == InitRaw /\ [][Next]_vars

(***************************************************************************)
(* What a finished parse bound                                             *)
(***************************************************************************)
Terminal(c) == c.status \in {"done", "error"}

\* the keyword bindings of the node active at the end, when the parse
\* returned; a parse that raised binds nothing
Bound(c) ==
    IF c.status = "done" THEN [ok |-> TRUE, kwargs |-> c.state.kwargs]
    ELSE [ok |-> FALSE, kwargs |-> <<>>]

\* the raw arguments of the vocabulary that lex as ARGUMENT
ArgumentWords(root) == {w \in Words(root) : from_string(w) = "ARGUMENT"}

\* the options of a node that have a short alias
Aliased(n) ==
    {all_options(n)[k] : k \in {x \in DOMAIN all_options(n) :
                                  all_options(n)[x].short # <<>>}}

long_with_value(option, v) == <<"-", "-">> \o option.name \o <<"=">> \o v
short_word(option) == <<"-">> \o option.short

\* C1: for every option of the active node that has a short alias and takes
\* a value, and every raw value v that lexes as an argument, parsing
\* [--name=v] and parsing [-alias, v] bind the same key to the same value.
C1_LongEqualsShort ==
    \A o \in Aliased(app) : \A v \in ArgumentWords(app) :
        (/\ o.target_type # "bool"
         /\ Terminal(ctx)
         /\ input \in {<<long_with_value(o, v)>>, <<short_word(o), v>>})
        => Bound(parse_app(app, <<long_with_value(o, v)>>))
             = Bound(parse_app(app, <<short_word(o), v>>))

\* a raw argument that is an option of node n complete in itself: a long
\* option with an inline value, or the long or short switch of a boolean
self_contained(n, w) ==
    LET table == all_options(n) IN
    CASE from_string(w) = "LONG" ->
           LET raw == as_long_option(w) IN
           /\ raw.key \in DOMAIN table
           /\ (raw.value # <<>> \/ table[raw.key].target_type = "bool")
      [] from_string(w) = "SHORT" ->
           LET pairs == as_short_option(w) IN
           /\ pairs.ok
           /\ \A i \in 1..Len(pairs.value) :
                  /\ pairs.value[i].key \in DOMAIN table
                  /\ (pairs.value[i].value # <<>>
                        \/ table[pairs.value[i].key].target_type = "bool")
      [] OTHER -> FALSE

\* the leaves of the application reached by one subcommand word
LeafWords == {w \in DOMAIN all_subcommands("app") :
                 SupportsPositionalArguments(all_subcommands("app")[w])}

\* C2: an option F of the leaf reached through the word S binds the same
\* whether it is written before S or after S: when [S, F, rest...] parses,
\* [F, S, rest...] parses too, with the same per-node bindings.
C2_FlagBeforeOrAfterSubcommand ==
    \A S \in LeafWords : \A F \in Words(app) :
        (/\ app = "app"
         /\ ctx.status = "done"
         /\ Len(input) >= 2
         /\ input[1] = S /\ input[2] = F
         /\ self_contained(all_subcommands("app")[S], F))
        => LET swapped == <<F, S>> \o SubSeq(input, 3, Len(input))
               r == parse_app(app, swapped)
           IN  r.status = "done" /\ r.buffer = ctx.buffer

\* the options a self-contained raw argument of node n names
options_named(n, w) ==
    IF from_string(w) = "LONG" THEN {all_options(n)[as_long_option(w).key].name}
    ELSE {all_options(n)[as_short_option(w).value[i].key].name :
              i \in 1..Len(as_short_option(w).value)}

\* a raw argument that names one option of node n, not a boolean, and
\* leaves its value to the next argument
wants_value(n, w) ==
    LET table == all_options(n) IN
    CASE from_string(w) = "LONG" ->
           LET raw == as_long_option(w) IN
           /\ raw.key \in DOMAIN table
           /\ raw.value = <<>>
           /\ table[raw.key].target_type # "bool"
      [] from_string(w) = "SHORT" ->
           LET pairs == as_short_option(w) IN
           /\ pairs.ok
           /\ Len(pairs.value) = 1
           /\ pairs.value[1].key \in DOMAIN table
           /\ pairs.value[1].value = <<>>
           /\ table[pairs.value[1].key].target_type # "bool"
      [] OTHER -> FALSE

\* an option of node n as it is written on the command line, with its
\* value when it takes one: [--flag], [--name=v], [-n5], [--name, v], [-n, v]
is_chunk(root, n, c) ==
    \/ Len(c) = 1 /\ c[1] \in Words(root) /\ self_contained(n, c[1])
    \/ /\ Len(c) = 2
       /\ c[1] \in Words(root)
       /\ wants_value(n, c[1])
       /\ c[2] \in ArgumentWords(root)

\* the words that lead from the root to the node whose options are written
PathTo(root) == IF root = "app" THEN <<n_run>> ELSE <<>>
Reached(root) == IF root = "app" THEN "run" ELSE "script"

\* the input is the path to the reached node followed by the chunks A and B
\* of two distinct options
C3_Case(A, B) ==
    /\ input = PathTo(app) \o A \o B
    /\ is_chunk(app, Reached(app), A)
    /\ is_chunk(app, Reached(app), B)
    /\ options_named(Reached(app), A[1]) \cap options_named(Reached(app), B[1]) = {}

\* the ways to cut the words after the path in two
Cuts ==
    LET rest == SubSeq(input, Len(PathTo(app)) + 1, Len(input)) IN
    {<<SubSeq(rest, 1, k), SubSeq(rest, k + 1, Len(rest))>> :
         k \in 1..(Len(rest) - 1)}

\* C3: two distinct options of the reached node, each written with its
\* value, bind the same option map in the order A, B as in the order B, A.
C3_OptionOrderIndependent ==
    Terminal(ctx) =>
        \A cut \in Cuts :
            C3_Case(cut[1], cut[2])
            => Bound(ctx) = Bound(parse_app(app, PathTo(app) \o cut[2] \o cut[1]))

\* C3 witness: a parse of two distinct options that returned with both bound
C3_Witness ==
    /\ ctx.status = "done"
    /\ \E cut \in Cuts : C3_Case(cut[1], cut[2])
    /\ Cardinality(DOMAIN ctx.state.kwargs) = 2

\* "-" followed by a digit
minus_digit(raw) == Len(raw) >= 2 /\ raw[1] = "-" /\ isnumeric(raw[2])

\* "-" followed by digits only
negative_number(raw) == Len(raw) >= 2 /\ raw[1] = "-" /\ isnumeric_str(Tail(raw))

\* C4: a raw string made of "-" and a digit is lexed as ARGUMENT, never as
\* a short stack, and [move, -d] against the leaf `move`, which takes one
\* integer positional, returns with that positional bound to the integer -d.
C4_NegativeNumberIsArgument ==
    /\ \A i \in 1..Len(input) :
           minus_digit(input[i]) => from_string(input[i]) = "ARGUMENT"
    /\ (Terminal(ctx) /\ Len(input) = 2 /\ input[1] = n_move
          /\ negative_number(input[2]))
       => /\ ctx.status = "done"
          /\ ctx.state.command = "move"
          /\ ctx.state.args = <<IntV(0 - digits_value(Tail(input[2])))>>

\* C4 witness: [move, -5] has been parsed and bound -5
C4_Witness ==
    /\ input = <<n_move, w_neg5>>
    /\ ctx.status = "done"
    /\ ctx.state.args = <<IntV(-5)>>

\* C5: the single token -p8080, p the alias of the integer option `port`,
\* binds port to 8080; the single token -abc, a, b and c the aliases of
\* three boolean options with default false, binds all three to true.
C5_ShortStack ==
    /\ (Terminal(ctx) /\ app = "script" /\ input = <<w_p8080>>)
       => Bound(ctx) = [ok |-> TRUE, kwargs |-> (n_port :> IntV(8080))]
    /\ (Terminal(ctx) /\ app = "script" /\ input = <<w_abc>>)
       => Bound(ctx) = [ok |-> TRUE,
                        kwargs |-> (n_all :> BoolV(TRUE)) @@ (n_brief :> BoolV(TRUE))
                                     @@ (n_color :> BoolV(TRUE))]

\* C5 witness: -p8080 has been parsed and port is bound
C5_Witness ==
    /\ app = "script"
    /\ input = <<w_p8080>>
    /\ ctx.status = "done"
    /\ n_port \in DOMAIN ctx.state.kwargs

\* C8: after an Escape on a leaf every token, whatever its lexical kind, is
\* bound as a positional literal: [run, --, t] against the leaf `run`, which
\* takes one string positional, returns with that positional bound to t.
C8_EscapePassthrough ==
    (/\ Terminal(ctx)
     /\ app = "app"
     /\ Len(input) = 3
     /\ input[1] = n_run
     /\ input[2] = w_escape
     /\ from_string(input[3]) # "NOT_IMPLEMENTED")
    => /\ ctx.status = "done"
       /\ ctx.state.command = "run"
       /\ ctx.state.args = <<StrV(input[3])>>

(***************************************************************************)
(* The converter on its own: convert applied to a raw string and a type    *)
(***************************************************************************)
MaxConvLen == 4

ConvChars == {"t", "r", "u", "e", "1"}

\* the raw strings of at most MaxConvLen characters
ConvStrings == UNION {[1..n -> ConvChars] : n \in 0..MaxConvLen}

\* the type descriptors handed to convert
ConvTypes ==
    {"int", "bool", "str", "int|bool", "bool|int", "int|None", "int|Literal[1,11]",
     "Literal['true','1']", "Literal[1,11]"}

\* the defaults handed to convert: none, and the integer 11
ConvDefaults == {MISSING, IntV(11)}

InitConv ==
    /\ app = "app"
    /\ input = <<>>
    /\ ctx = ParserContext(app)
    /\ opt = IdleOpt
    /\ run = IdleRun
    /\ reg = IdleReg
    /\ call = IdleCall
    /\ old = IdleOld
    /\ \E argument \in ConvStrings : \E converter \in ConvTypes :
         \E default_value \in ConvDefaults :
           conv = [status |-> "ready", argument |-> argument,
                   converter |-> converter, default_value |-> default_value,
                   result |-> Ok(NoneV)]

\* a call convert(argument=, converter=, default_value=)
Convert ==
    /\ conv.status = "ready"
    /\ conv' = [conv EXCEPT
                  !.status = "returned",
                  !.result = convert(conv.argument, conv.converter,
                                     conv.default_value)]
    /\ UNCHANGED <<app, input, ctx, reg, call, old, opt, run>>

NextConv == Convert

SpecConv == InitConv /\ [][NextConv]_vars

w_1 == <<"1">>
w_true == <<"t", "r", "u", "e">>
w_treu == <<"t", "r", "e", "u">>

\* C9: convert with a union descriptor returns what the first candidate,
\* left to right, that accepts the raw string returns, and fails with the
\* conversion error when none accepts it; for int | bool, "1" yields the
\* integer 1, "true" yields boolean true and "treu" fails.
C9_UnionLeftToRight ==
    (conv.status = "returned" /\ TypeDef(conv.converter).origin = "Union") =>
        LET args == TypeDef(conv.converter).args
            first == convert(conv.argument, args[1], conv.default_value)
            second == convert(conv.argument, args[2], conv.default_value)
        IN  /\ first.ok => conv.result = first
            /\ (~first.ok /\ second.ok) => conv.result = second
            /\ (~first.ok /\ ~second.ok) =>
                   ~conv.result.ok /\ conv.result.exc = "ArgumentError"
            /\ (conv.converter = "int|bool" /\ conv.argument = w_1) =>
                   conv.result = Ok(IntV(1))
            /\ (conv.converter = "int|bool" /\ conv.argument = w_true) =>
                   conv.result = Ok(BoolV(TRUE))
            /\ (conv.converter = "int|bool" /\ conv.argument = w_treu) =>
                   ~conv.result.ok /\ conv.result.exc = "ArgumentError"

\* C9 witness: convert("1", int | bool) has returned the integer 1
C9_Witness ==
    /\ conv.status = "returned"
    /\ conv.converter = "int|bool"
    /\ conv.argument = w_1
    /\ conv.result = Ok(IntV(1))

\* a call with an enumerated-literal descriptor has returned
LiteralCall == conv.status = "returned" /\ TypeDef(conv.converter).origin = "Literal"

\* the literals that raw converts to with the literal's own runtime type
MatchingLiterals ==
    LET literals == TypeDef(conv.converter).literals IN
    {k \in 1..Len(literals) :
        LET r == convert(conv.argument, literals[k].t, conv.default_value) IN
        r.ok /\ py_eq(r.value, literals[k])}

\* C22: for an enumerated-literal descriptor, convert returns a value only
\* if it equals a declared literal after converting raw with that literal's
\* own runtime type, and raises ArgumentError when no literal matches, for
\* literals of any runtime type.
C22_LiteralMatchOrArgumentError ==
    LiteralCall =>
        LET literals == TypeDef(conv.converter).literals IN
        /\ conv.result.ok =>
               \E k \in MatchingLiterals : py_eq(conv.result.value, literals[k])
        /\ MatchingLiterals = {} =>
               ~conv.result.ok /\ conv.result.exc = "ArgumentError"

\* a call with a union descriptor has returned and no candidate accepted
\* the raw string
EveryCandidateFailed ==
    /\ conv.status = "returned"
    /\ TypeDef(conv.converter).origin = "Union"
    /\ \A k \in 1..Len(TypeDef(conv.converter).args) :
           ~convert(conv.argument, TypeDef(conv.converter).args[k],
                    conv.default_value).ok

\* C30: when every candidate of a union descriptor fails, convert raises a
\* single conversion error that names every candidate that was attempted,
\* in their order, not only the last one.
C30_UnionErrorNamesEveryCandidate ==
    EveryCandidateFailed =>
        LET args == TypeDef(conv.converter).args IN
        /\ ~conv.result.ok
        /\ conv.result.exc = "ArgumentError"
        /\ conv.result.names =
               <<conv.argument>> \o [k \in 1..Len(args) |-> type_name(args[k])]

\* C30 witness: convert("true", int | Literal[1, 11]) has failed; the
\* attempt on the Literal ended in a TypeError
C30_Witness ==
    /\ EveryCandidateFailed
    /\ conv.converter = "int|Literal[1,11]"
    /\ conv.argument = w_true
    /\ convert(w_true, "Literal[1,11]", MISSING).exc = "TypeError"
    /\ ~conv.result.ok

\* C31: for a union that includes the absent marker (int | None), when the
\* conversion reaches the absent candidate after the earlier candidates
\* failed, the result is the declared default if a default is set, and a
\* null value if the default is unset.
C31_AbsentCandidateGivesDefault ==
    (/\ conv.status = "returned"
     /\ conv.converter = "int|None"
     /\ ~convert(conv.argument, "int", conv.default_value).ok)
    => conv.result = Ok(IF conv.default_value = MISSING THEN NoneV
                        ELSE conv.default_value)

\* C32: for every raw string and every target descriptor, convert either
\* returns a value or raises the library's conversion error (ArgumentError)
\* naming the raw value and the attempted type(s); no other exception kind
\* escapes from convert.
C32_OnlyConversionErrors ==
    conv.status = "returned" =>
        \/ conv.result.ok
        \/ /\ conv.result.exc = "ArgumentError"
           /\ Len(conv.result.names) >= 1
           /\ conv.result.names[1] = conv.argument

(***************************************************************************)
(* abc.py, SupportsSubcommands: the subcommand table of one node and the   *)
(* calls that change it                                                    *)
(***************************************************************************)
MaxAliases == 2

\* the commands that can be handed to the node, and their names
Commands == {"cmd_one", "cmd_two"}
command_name(c) == IF c = "cmd_one" THEN "one" ELSE "two"

\* the strings a command can carry as an alias
AliasPool == {"o", "x", "two"}

\* every key the table can hold; a key that is absent maps to "None"
RegKeys == {"one", "two", "o", "x"}

AliasLists == UNION {[1..n -> AliasPool] : n \in 0..MaxAliases}

Range(seq) == {seq[i] : i \in 1..Len(seq)}

\* list.index(x), 0-based, for an x the list holds
list_index(seq, x) == (CHOOSE i \in 1..Len(seq) :
                          seq[i] = x /\ \A j \in 1..(i - 1) : seq[j] # x) - 1

\* list.remove(x): the list without the first x
list_remove(seq, x) ==
    LET i == list_index(seq, x) + 1 IN
    SubSeq(seq, 1, i - 1) \o SubSeq(seq, i + 1, Len(seq))

\* seq[slice(index, None, -1)] for index >= -1 and a non-empty list
slice_reversed(seq, index) ==
    LET start == IF index < 0 THEN Len(seq) + index + 1 ELSE index + 1 IN
    [j \in 1..start |-> seq[start + 1 - j]]

\* what a call on the table leaves and how it ended
Returned(r) == [reg |-> r, exc |-> "", key |-> "", collision |-> "none"]
Failed(r, exc, key, collision) ==
    [reg |-> r, exc |-> exc, key |-> key, collision |-> collision]

\* SupportsSubcommands.remove_subcommand(name)
remove_subcommand(r, name) ==
    IF r.table[name] = "None"
    THEN Failed(r, "KeyError", name, "none")
    ELSE
      LET command == r.table[name]
          popped == [r.table EXCEPT ![name] = "None"]
          aliases == r.aliases[command]
      IN  IF Len(aliases) < 1
          THEN Returned([r EXCEPT !.table = popped])
          ELSE IF name \in Range(aliases)
          THEN Returned([r EXCEPT !.table = popped,
                                  !.aliases[command] = list_remove(aliases, name)])
          ELSE Returned([r EXCEPT !.table =
                           [k \in RegKeys |->
                              IF k \in Range(aliases) THEN "None" ELSE popped[k]]])

\* the loop `for alias in reversed_aliases: self.remove_subcommand(alias)`
RECURSIVE remove_each(_, _, _)
remove_each(r, names, k) ==
    IF k > Len(names) THEN Returned(r)
    ELSE LET one == remove_subcommand(r, names[k]) IN
         IF one.exc # "" THEN one ELSE remove_each(one.reg, names, k + 1)

\* the else branch of the alias loop of add_subcommand: undo and raise
cancel_add(r, c, aliases, alias, previous_parent) ==
    LET removed == remove_subcommand(r, command_name(c)) IN
    IF removed.exc # "" THEN Failed(removed.reg, removed.exc, removed.key, "alias")
    ELSE
      LET index == list_index(aliases, alias) - 1
          undone == remove_each(removed.reg, slice_reversed(aliases, index), 1)
      IN  IF undone.exc # ""
          THEN Failed(undone.reg, undone.exc, undone.key, "alias")
          ELSE Failed([undone.reg EXCEPT !.parent[c] = previous_parent],
                      "SubcommandAlreadyExistsError", alias, "alias")

\* the loop `for alias in aliases` of add_subcommand, from the 1-based k
RECURSIVE add_aliases(_, _, _, _, _)
add_aliases(r, c, aliases, k, previous_parent) ==
    IF k > Len(aliases) THEN Returned(r)
    ELSE IF r.table[aliases[k]] = "None"
    THEN add_aliases([r EXCEPT !.table[aliases[k]] = c], c, aliases, k + 1,
                     previous_parent)
    ELSE cancel_add(r, c, aliases, aliases[k], previous_parent)

\* SupportsSubcommands.add_subcommand(subcommand)
add_subcommand(r, c) ==
    LET previous_parent == r.parent[c]
        adopted == [r EXCEPT !.parent[c] = "node"]
    IN  IF r.table[command_name(c)] # "None"
        THEN Failed(r, "SubcommandAlreadyExistsError", command_name(c), "name")
        ELSE add_aliases([adopted EXCEPT !.table[command_name(c)] = c], c,
                         r.aliases[c], 1, previous_parent)

InitReg ==
    /\ app = "app"
    /\ input = <<>>
    /\ ctx = ParserContext(app)
    /\ opt = IdleOpt
    /\ run = IdleRun
    /\ conv = IdleConv
    /\ old = IdleOld
    /\ call = [op |-> "none", arg |-> "", before |-> IdleReg, exc |-> "",
               key |-> "", collision |-> "none"]
    /\ \E aliases \in [Commands -> AliasLists] :
           reg = [table |-> [k \in RegKeys |-> "None"],
                  aliases |-> aliases,
                  parent |-> [c \in Commands |-> "None"]]

\* a call node.add_subcommand(c)
AddSubcommand ==
    \E c \in Commands :
        LET result == add_subcommand(reg, c) IN
        /\ reg' = result.reg
        /\ call' = [op |-> "add_subcommand", arg |-> c, before |-> reg,
                    exc |-> result.exc, key |-> result.key,
                    collision |-> result.collision]
        /\ UNCHANGED <<app, input, ctx, conv, old, opt, run>>

\* a call node.remove_subcommand(name)
RemoveSubcommand ==
    \E name \in RegKeys :
        LET result == remove_subcommand(reg, name) IN
        /\ reg' = result.reg
        /\ call' = [op |-> "remove_subcommand", arg |-> name, before |-> reg,
                    exc |-> result.exc, key |-> result.key,
                    collision |-> result.collision]
        /\ UNCHANGED <<app, input, ctx, conv, old, opt, run>>

NextReg ==
    \/ AddSubcommand
    \/ RemoveSubcommand

SpecReg == InitReg /\ [][NextReg]_vars

\* C10: when add_subcommand(c) fails because one of c's aliases is already
\* a key of the node, the node's key-to-command table after the call is the
\* table before the call.
C10_FailedAddRestoresTable ==
    (call.op = "add_subcommand" /\ call.exc # "" /\ call.collision = "alias")
    => reg.table = call.before.table

\* the call made last was add_subcommand(c) and, when it was made, c's name
\* or one of c's aliases was a key of the node
AddCollides ==
    /\ call.op = "add_subcommand"
    /\ \/ call.before.table[command_name(call.arg)] # "None"
       \/ \E a \in Range(call.before.aliases[call.arg]) :
              call.before.table[a] # "None"

\* the keys of c that were taken when add_subcommand(c) was called
TakenKeys ==
    {k \in {command_name(call.arg)} \cup Range(call.before.aliases[call.arg]) :
        call.before.table[k] # "None"}

\* C21: add_subcommand(c) called when c's name or one of c's aliases is
\* already a key of the node raises SubcommandAlreadyExistsError naming a
\* colliding key, and no exception of another kind.
C21_RegistrationError ==
    AddCollides =>
        /\ call.exc = "SubcommandAlreadyExistsError"
        /\ call.key \in TakenKeys

(***************************************************************************)
(* The deferred-option parser of src/clap: lexer.py                        *)
(***************************************************************************)
\* str.lstrip("-")
RECURSIVE lstrip_dash(_)
lstrip_dash(s) == IF s # <<>> /\ Head(s) = "-" THEN lstrip_dash(Tail(s)) ELSE s

\* Token.as_snake_case of the lexer's Token
token_as_snake_case(token) == replace_char(lstrip_dash(token.literal), "-", "_")

\* Lexer._maybe_long_option
maybe_long_option(argument) ==
    IF argument = <<"-", "-">> THEN "ESCAPE" ELSE "LONG_OPTION"

\* Lexer._maybe_short_option
maybe_short_option(argument) ==
    LET remainder == slice_from(argument, 1) IN
    IF remainder = <<>> THEN "STDIN"
    ELSE IF isalpha(remainder[1]) THEN "SHORT_OPTION"
    ELSE IF isnumeric_str(remainder) THEN "ARGUMENT"
    ELSE "NOT_IMPLEMENTED"

\* Lexer.escape: the 0-based position of the first "--", the length if none
lexer_escape(inp) ==
    IF \E i \in 1..Len(inp) : inp[i] = <<"-", "-">>
    THEN (CHOOSE i \in 1..Len(inp) :
              inp[i] = <<"-", "-">> /\ \A j \in 1..(i - 1) : inp[j] # <<"-", "-">>) - 1
    ELSE Len(inp)

\* Lexer.__next__ at the 0-based cursor `position`; NoToken for StopIteration,
\* kind NOT_IMPLEMENTED when _maybe_short_option raises
Lexer_next(inp, position) ==
    IF position >= Len(inp) THEN NoToken
    ELSE LET argument == inp[position + 1] IN
         IF position > lexer_escape(inp) THEN Token("ARGUMENT", argument)
         ELSE IF startswith(argument, <<"-", "-">>)
         THEN Token(maybe_long_option(argument), argument)
         ELSE IF startswith(argument, <<"-">>)
         THEN Token(maybe_short_option(argument), argument)
         ELSE Token("ARGUMENT", argument)

\* Lexer.peek: the next token, the cursor put back
Lexer_peek(inp, position) == Lexer_next(inp, position)

\* Token.is_option
is_option(token) ==
    /\ token.kind \in {"LONG_OPTION", "SHORT_OPTION"}
    /\ startswith(token.literal, <<"-">>)

\* Token.is_negative_number: "True", "False", or "TypeError" where the
\* property evaluates self[1:] on a Token, which has no __getitem__
is_negative_number(token) ==
    IF token.kind = "ARGUMENT" /\ startswith(token.literal, <<"-">>)
    THEN "TypeError"
    ELSE "False"

\* Token.is_argument: "True", "False" or "TypeError"
is_argument(token) ==
    IF token.kind # "ARGUMENT" THEN "False"
    ELSE IF is_negative_number(token) = "TypeError" THEN "TypeError"
    ELSE IF is_option(token) THEN "False" ELSE "True"

\* Token.from_long_option
from_long_option(token) ==
    LET remainder == IF token.kind = "LONG_OPTION"
                          /\ startswith(token.literal, <<"-", "-">>)
                          /\ token.literal # <<"-", "-">>
                     THEN slice_from(token.literal, 2) ELSE token.literal
        eq == find_char(remainder, "=")
    IN  IF eq > 0
        THEN RawOption(SubSeq(remainder, 1, eq - 1), slice_from(remainder, eq))
        ELSE RawOption(remainder, <<>>)

\* Token.from_short_option, the generator's loop from the 1-based `index`:
\* the pairs it yields, and whether its assertion then fails
RECURSIVE from_short_option_loop(_, _, _)
from_short_option_loop(remainder, index, pairs) ==
    IF index > Len(remainder) THEN [pairs |-> pairs, asserted |-> FALSE]
    ELSE
      LET option == remainder[index]
          has_next == index + 1 <= Len(remainder)
      IN  IF has_next /\ isnumeric(remainder[index + 1])
          THEN [pairs |-> Append(pairs, RawOption(<<option>>,
                                                 slice_from(remainder, index))),
                asserted |-> FALSE]
          ELSE IF has_next /\ remainder[index + 1] = "="
          THEN [pairs |-> Append(pairs, RawOption(<<option>>,
                                                 slice_from(remainder, index + 1))),
                asserted |-> FALSE]
          ELSE IF ~isalpha(option)
          THEN [pairs |-> pairs, asserted |-> TRUE]
          ELSE from_short_option_loop(remainder, index + 1,
                                      Append(pairs, RawOption(<<option>>, <<>>)))

from_short_option(token) ==
    LET remainder == IF token.kind = "SHORT_OPTION" THEN slice_from(token.literal, 1)
                     ELSE token.literal
    IN  IF remainder = <<>>
        THEN [pairs |-> <<RawOption(<<>>, <<>>)>>, asserted |-> FALSE]
        ELSE from_short_option_loop(remainder, 1, <<>>)

(***************************************************************************)
(* src/clap: options.py, converter.py and the registry of the example      *)
(***************************************************************************)
n_quiet == <<"q", "u", "i", "e", "t">>
n_start == <<"s", "t", "a", "r", "t">>
n_stop == <<"s", "t", "o", "p">>
n_force == <<"f", "o", "r", "c", "e">>

\* options.Option.__init__: a bool option without a default gets False
OptionWithMetadata(name, alias, target_type, default, n_max, requires, conflicts) ==
    [name |-> name, alias |-> alias, target_type |-> target_type,
     default |-> IF default = MISSING /\ target_type = "bool"
                 THEN BoolV(FALSE) ELSE default,
     n_args_maximum |-> n_max, requires |-> requires,
     conflicts |-> conflicts]

\* Option.as_snake_case and Option.as_kebab_case
as_snake_case(option) == replace_char(option.name, "-", "_")
as_kebab_case(option) == replace_char(option.name, "_", "-")

DefaultHelp == OptionWithMetadata(n_help, <<"h">>, "bool", BoolV(FALSE), 0, {}, {})

\* the command `start` of the package docstring: verbose conflicts with quiet
start_verbose ==
    OptionWithMetadata(n_verbose, <<"v">>, "bool", BoolV(FALSE), 1, {}, {n_quiet})
start_quiet == OptionWithMetadata(n_quiet, <<"q">>, "bool", BoolV(FALSE), 1, {}, {})

\* a command `stop` whose option force requires quiet, both False by default
stop_force ==
    OptionWithMetadata(n_force, <<"f">>, "bool", BoolV(FALSE), 1, {n_quiet}, {})
stop_quiet == OptionWithMetadata(n_quiet, <<"q">>, "bool", BoolV(FALSE), 1, {}, {})

\* the options of a command in the order they were added
command_options(command) ==
    IF command = "start" THEN <<start_verbose, start_quiet, DefaultHelp>>
    ELSE IF command = "stop" THEN <<stop_force, stop_quiet, DefaultHelp>>
    ELSE <<DefaultHelp>>

\* add_option: the option under its name and under its alias
RECURSIVE add_options(_)
add_options(options) ==
    IF options = <<>> THEN <<>>
    ELSE (Head(options).name :> Head(options))
           @@ (Head(options).alias :> Head(options))
           @@ add_options(Tail(options))

command_all_options(command) == add_options(command_options(command))

\* all_options.values(): one entry per key, name then alias
RECURSIVE all_options_values(_)
all_options_values(options) ==
    IF options = <<>> THEN <<>>
    ELSE <<Head(options), Head(options)>> \o all_options_values(Tail(options))

\* the parser itself is the only object with commands
SupportsCommands(command) == command = "parser"
all_commands(command) ==
    IF command = "parser" THEN (n_start :> "start") @@ (n_stop :> "stop") ELSE <<>>

\* the positional parameters of a command
command_arguments(command) ==
    IF command = "start" THEN <<[name |-> n_server, target_type |-> "str"]>>
    ELSE IF command = "stop"
    THEN <<[name |-> n_server, target_type |-> "str"],
           [name |-> n_name, target_type |-> "str"]>>
    ELSE <<>>

\* converter.convert_to_bool
convert_to_bool(argument) ==
    LET a == lower(argument) IN
    IF a \in {<<"y", "e", "s">>, <<"y">>, <<"t", "r", "u", "e">>, <<"t">>, <<"1">>}
    THEN Ok(BoolV(TRUE))
    ELSE IF a \in {<<"n", "o">>, <<"n">>, <<"f", "a", "l", "s", "e">>, <<"f">>,
                   <<"0">>}
    THEN Ok(BoolV(FALSE))
    ELSE Raise("ValueError", "Unable to convert to bool", <<argument>>)

\* converter.actual_conversion
actual_conversion(converter, argument) ==
    IF converter = "bool" THEN convert_to_bool(argument)
    ELSE LET r == call_constructor(converter, argument) IN
         IF r.ok THEN r
         ELSE Raise("ValueError", "Unable to convert",
                    <<argument, type_name(converter)>>)

\* Option.convert for the plain types the example uses
Option_convert(option, value) == actual_conversion(option.target_type, value)

\* Option.validate_conflicts that accepts every set of options
validate_conflicts_never(option, options) == Ok(NoneV)

\* Option.validate_conflicts(options), options the keys in order
validate_conflicts(option, options) ==
    IF \E i \in 1..Len(options) : options[i] \in option.conflicts
    THEN LET i == CHOOSE k \in 1..Len(options) :
                      /\ options[k] \in option.conflicts
                      /\ \A j \in 1..(k - 1) : options[j] \notin option.conflicts
         IN  Raise("ValueError", "conflicts with option", <<option.name, options[i]>>)
    ELSE Ok(NoneV)

\* Option.validate_requires(options)
validate_requires(option, options) ==
    IF \E r \in option.requires : r \notin Range(options)
    THEN LET r == CHOOSE q \in option.requires : q \notin Range(options)
         IN  Raise("ValueError", "requires option", <<option.name, r>>)
    ELSE Ok(NoneV)

(***************************************************************************)
(* src/clap: parser.py, ArgumentParser.parse and its token handlers        *)
(***************************************************************************)
\* ctx.keyword, a dict that keeps insertion order: a sequence of entries
dict_keys(d) == [i \in 1..Len(d) |-> d[i].key]
dict_has(d, key) == \E i \in 1..Len(d) : d[i].key = key
dict_get(d, key) == d[CHOOSE i \in 1..Len(d) : d[i].key = key].value
dict_set(d, key, value) ==
    IF dict_has(d, key)
    THEN [i \in 1..Len(d) |-> IF d[i].key = key
                              THEN [key |-> key, value |-> value] ELSE d[i]]
    ELSE Append(d, [key |-> key, value |-> value])
dict_pop(d, key) == SelectSeq(d, LAMBDA e : e.key # key)

\* _Context(self), the lexer's cursor and the list `deferred` of parse
Context(command) ==
    [status |-> "scanning", position |-> 0, command |-> command,
     positional |-> <<>>, keyword |-> <<>>, deferred |-> <<>>,
     error |-> NoError, outcome |-> "none"]

\* handle_argument_token(token, next_token, ctx)
handle_argument_token(o, token) ==
    LET value == token.literal IN
    IF SupportsCommands(o.command)
    THEN IF value \in DOMAIN all_commands(o.command)
         THEN [o EXCEPT !.command = all_commands(o.command)[value]]
         ELSE raise(o, "ValueError", "invalid command", <<value>>)
    ELSE LET index == Len(o.positional) IN
         IF index >= Len(command_arguments(o.command))
         THEN raise(o, "ValueError", "too many arguments", <<value>>)
         ELSE LET r == actual_conversion(
                           command_arguments(o.command)[index + 1].target_type,
                           value)
              IN  IF ~r.ok THEN raise(o, r.exc, r.msg, r.names)
                  ELSE [o EXCEPT !.positional = Append(@, r.value)]

\* handle_long_option_token(token, next_token, ctx)
handle_long_option_token(o, token, next_token) ==
    LET raw == from_long_option(token)
        table == command_all_options(o.command)
    IN  IF token_as_snake_case(token) \notin DOMAIN table
        THEN raise(o, "ValueError", "invalid option", <<token.literal>>)
        ELSE
          LET option == table[token_as_snake_case(token)]
              next_is_argument ==
                  IF next_token = NoToken THEN "False" ELSE is_argument(next_token)
              value ==
                  IF raw.value # <<>> THEN raw.value
                  ELSE IF option.target_type = "bool"
                  THEN str_of_bool(~truthy(option.default))
                  ELSE IF next_is_argument = "True" /\ option.n_args_maximum > 0
                  THEN next_token.literal
                  ELSE <<>>
              r == Option_convert(option, value)
          IN  IF raw.value = <<>> /\ next_is_argument = "TypeError"
              THEN raise(o, "TypeError", "'Token' object is not subscriptable", <<>>)
              ELSE IF ~r.ok THEN raise(o, r.exc, r.msg, r.names)
              ELSE [o EXCEPT !.keyword = dict_set(@, as_snake_case(option), r.value)]

\* handle_short_option_token, the loop over the pairs from the 1-based k
RECURSIVE short_option_pairs(_, _, _, _)
short_option_pairs(o, split, k, next_token) ==
    IF k > Len(split.pairs)
    THEN IF split.asserted THEN raise(o, "AssertionError", "", <<>>) ELSE o
    ELSE
      LET flag == split.pairs[k].key
          table == command_all_options(o.command)
      IN  IF flag \notin DOMAIN table
          THEN raise(o, "ValueError", "invalid option", <<flag>>)
          ELSE LET new_value == <<"-", "-">> \o as_kebab_case(table[flag])
                                  \o <<"=">> \o split.pairs[k].value
                   handled == handle_long_option_token(
                                  o, Token("LONG_OPTION", new_value), next_token)
               IN  IF handled.status = "error" THEN handled
                   ELSE short_option_pairs(handled, split, k + 1, next_token)

\* handle_short_option_token(token, next_token, ctx)
handle_short_option_token(o, token, next_token) ==
    short_option_pairs(o, from_short_option(token), 1, next_token)

\* handle_deferred_tokens(deferred, ctx)
RECURSIVE handle_deferred_tokens(_)
handle_deferred_tokens(o) ==
    IF o.deferred = <<>> \/ o.status = "error" THEN o
    ELSE
      LET token == Head(o.deferred)
          popped == [o EXCEPT !.deferred = Tail(@)]
          next_token == IF popped.deferred = <<>> THEN NoToken
                        ELSE Head(popped.deferred)
      IN  handle_deferred_tokens(
              CASE token.kind = "LONG_OPTION" ->
                     handle_long_option_token(popped, token, next_token)
                [] token.kind = "SHORT_OPTION" ->
                     handle_short_option_token(popped, token, next_token)
                [] OTHER -> handle_argument_token(popped, token))

\* one turn of `for token in lexer` in ArgumentParser.parse
scan_token(o, inp) ==
    LET token == Lexer_next(inp, o.position)
        taken == [o EXCEPT !.position = @ + 1]
    IN  IF token.kind = "NOT_IMPLEMENTED"
        THEN raise(taken, "NotImplementedError", "", <<token.literal>>)
        ELSE IF is_option(token)
        THEN LET kept == [taken EXCEPT !.deferred = Append(@, token)]
                 next_token == Lexer_peek(inp, taken.position)
             IN  IF next_token.kind = "NOT_IMPLEMENTED"
                 THEN raise(kept, "NotImplementedError", "", <<next_token.literal>>)
                 ELSE IF next_token = NoToken \/ is_option(next_token) THEN kept
                 ELSE IF is_argument(next_token) = "TypeError"
                 THEN raise(kept, "TypeError",
                            "'Token' object is not subscriptable", <<>>)
                 ELSE IF is_argument(next_token) = "True"
                 THEN [kept EXCEPT !.deferred = Append(@, next_token),
                                   !.position = @ + 1]
                 ELSE kept
        ELSE IF is_argument(token) = "TypeError"
        THEN raise(taken, "TypeError", "'Token' object is not subscriptable", <<>>)
        ELSE IF is_argument(token) = "True"
        THEN handle_argument_token(taken, token)
        ELSE IF token.kind = "ESCAPE" THEN taken
        ELSE raise(taken, "NotImplementedError", "", <<token.literal>>)

\* the loop that gives every option with a default its default
RECURSIVE fill_defaults(_, _, _)
fill_defaults(keyword, values, k) ==
    IF k > Len(values) THEN keyword
    ELSE IF dict_has(keyword, as_snake_case(values[k])) \/ values[k].default = MISSING
    THEN fill_defaults(keyword, values, k + 1)
    ELSE fill_defaults(dict_set(keyword, as_snake_case(values[k]), values[k].default),
                       values, k + 1)

\* the loop `for opt in ctx.keyword.keys()` that validates requires and
\* conflicts, from the 1-based k: the first error, or Ok
RECURSIVE validate_options(_, _)
validate_options(o, k) ==
    IF k > Len(o.keyword) THEN Ok(NoneV)
    ELSE LET option == command_all_options(o.command)[o.keyword[k].key]
             required == validate_requires(option, dict_keys(o.keyword))
             allowed == validate_conflicts(option, dict_keys(o.keyword))
         IN  IF ~required.ok THEN required
             ELSE IF ~allowed.ok THEN allowed
             ELSE validate_options(o, k + 1)

\* invoke_command(ctx, help_fmt): the parser's own invoke displays help; a
\* callback whose parameters the arguments do not fit raises TypeError,
\* which displays help
invoke_command(o) ==
    IF o.command = "parser" THEN "help"
    ELSE IF Len(o.positional) = Len(command_arguments(o.command)) THEN "invoked"
    ELSE "help"

w_web == <<"w", "e", "b">>
w_long_quiet == <<"-", "-">> \o n_quiet
w_long_force == <<"-", "-">> \o n_force

MaxOldArgs == 3

OldWords ==
    {n_start, n_stop, w_web, w_long_verbose, w_long_quiet, w_long_force, w_v,
     w_escape, w_stdin, w_symbol}

InitOld ==
    /\ app = "parser"
    /\ input \in Vectors(OldWords, MaxOldArgs)
    /\ ctx = ParserContext(app)
    /\ opt = IdleOpt
    /\ run = IdleRun
    /\ reg = IdleReg
    /\ call = IdleCall
    /\ conv = IdleConv
    /\ old = Context(app)

OldToken == Lexer_next(input, old.position)
Scanning == old.status = "scanning" /\ old.position < Len(input)

\* a turn of the loop on an option token, deferred with its value if any
ScanOption ==
    /\ Scanning
    /\ is_option(OldToken)
    /\ old' = scan_token(old, input)
    /\ UNCHANGED <<app, input, ctx, reg, call, conv, opt, run>>

\* a turn of the loop on an argument token, handled at once
ScanArgument ==
    /\ Scanning
    /\ OldToken.kind = "ARGUMENT"
    /\ old' = scan_token(old, input)
    /\ UNCHANGED <<app, input, ctx, reg, call, conv, opt, run>>

\* a turn of the loop on the escape token
ScanEscape ==
    /\ Scanning
    /\ OldToken.kind = "ESCAPE"
    /\ old' = scan_token(old, input)
    /\ UNCHANGED <<app, input, ctx, reg, call, conv, opt, run>>

\* a turn of the loop that raises NotImplementedError: stdin, or an
\* argument the lexer cannot classify
ScanNotImplemented ==
    /\ Scanning
    /\ OldToken.kind \in {"STDIN", "NOT_IMPLEMENTED"}
    /\ old' = scan_token(old, input)
    /\ UNCHANGED <<app, input, ctx, reg, call, conv, opt, run>>

\* the loop is over: handle_deferred_tokens(deferred, ctx)
HandleDeferredTokens ==
    /\ old.status = "scanning"
    /\ old.position >= Len(input)
    /\ old' = LET handled == handle_deferred_tokens(old) IN
              IF handled.status = "error" THEN handled
              ELSE [handled EXCEPT !.status = "defaults"]
    /\ UNCHANGED <<app, input, ctx, reg, call, conv, opt, run>>

\* the loop over all_options.values() that fills in the defaults
FillDefaults ==
    /\ old.status = "defaults"
    /\ old' = [old EXCEPT
                 !.status = "validate",
                 !.keyword = fill_defaults(
                                 @, all_options_values(command_options(old.command)),
                                 1)]
    /\ UNCHANGED <<app, input, ctx, reg, call, conv, opt, run>>

\* the loop over ctx.keyword.keys() that validates requires and conflicts
ValidateOptions ==
    /\ old.status = "validate"
    /\ old' = LET r == validate_options(old, 1) IN
              IF r.ok THEN [old EXCEPT !.status = "dispatch"]
              ELSE raise(old, r.exc, r.msg, r.names)
    /\ UNCHANGED <<app, input, ctx, reg, call, conv, opt, run>>

\* help was asked for, or there were no arguments: display_help and return
DisplayHelp ==
    /\ old.status = "dispatch"
    /\ \/ dict_has(old.keyword, n_help) /\ truthy(dict_get(old.keyword, n_help))
       \/ input = <<>>
    /\ old' = [old EXCEPT !.status = "done",
                          !.keyword = dict_pop(@, n_help),
                          !.outcome = "help"]
    /\ UNCHANGED <<app, input, ctx, reg, call, conv, opt, run>>

\* invoke_command(ctx, help_fmt)
InvokeCommand ==
    /\ old.status = "dispatch"
    /\ ~(dict_has(old.keyword, n_help) /\ truthy(dict_get(old.keyword, n_help)))
    /\ input # <<>>
    /\ old' = [old EXCEPT !.status = "done",
                          !.keyword = dict_pop(@, n_help),
                          !.outcome = invoke_command(
                                          [old EXCEPT !.keyword = dict_pop(@, n_help)])]
    /\ UNCHANGED <<app, input, ctx, reg, call, conv, opt, run>>

NextOld ==
    \/ ScanOption
    \/ ScanArgument
    \/ ScanEscape
    \/ ScanNotImplemented
    \/ HandleDeferredTokens
    \/ FillDefaults
    \/ ValidateOptions
    \/ DisplayHelp
    \/ InvokeCommand

SpecOld == InitOld /\ [][NextOld]_vars

\* the command lines of `stop`: flags and positional words after it, and
\* the empty command line
StopWords == {w_long_force, w_web, w_Nic, w_escape, w_stdin}

InitStop ==
    /\ app = "parser"
    /\ input \in {<<>>} \cup {<<n_stop>> \o v : v \in Vectors(StopWords, MaxOldArgs)}
    /\ ctx = ParserContext(app)
    /\ opt = IdleOpt
    /\ run = IdleRun
    /\ reg = IdleReg
    /\ call = IdleCall
    /\ conv = IdleConv
    /\ old = Context(app)

SpecStop == InitStop /\ [][NextOld]_vars

\* the words after `start` are --verbose, --quiet and at most one server
\* name, so that nothing but the options can stop the parse
OnlyStartOptions ==
    /\ Len(input) >= 1
    /\ input[1] = n_start
    /\ \A i \in 2..Len(input) : input[i] \in {w_long_verbose, w_long_quiet, w_web}
    /\ Cardinality({i \in 2..Len(input) : input[i] = w_web}) <= 1

Supplied(word) == \E i \in 2..Len(input) : input[i] = word

\* C6: with `verbose` declaring `quiet` in its conflicts set and both
\* defaulting to false, a command line for `start` that supplies --verbose
\* and not --quiet parses successfully, with no Conflict error.
C6_VerboseAloneSucceeds ==
    (/\ old.status \in {"done", "error"}
     /\ OnlyStartOptions
     /\ Supplied(w_long_verbose)
     /\ ~Supplied(w_long_quiet))
    => /\ old.status = "done"
       /\ dict_get(old.keyword, n_verbose) = BoolV(TRUE)

\* C7: a command line for `start` that supplies both --verbose and --quiet,
\* in either order, is rejected with the conflict error naming verbose and
\* quiet, and no callback is invoked.
C7_BothRejected ==
    (/\ OnlyStartOptions
     /\ Supplied(w_long_verbose)
     /\ Supplied(w_long_quiet))
    => /\ old.outcome # "invoked"
       /\ old.status # "done"
       /\ old.status = "error" =>
              old.error = [exc |-> "ValueError", msg |-> "conflicts with option",
                           names |-> <<n_verbose, n_quiet>>]

\* C7 witness: --quiet then --verbose for `start` has been rejected
C7_Witness ==
    /\ input = <<n_start, w_long_quiet, w_long_verbose>>
    /\ old.status = "error"
    /\ old.error.msg = "conflicts with option"

\* the deferred option tokens that no handler has resolved yet
PendingOptions(o) == {i \in 1..Len(o.deferred) : is_option(o.deferred[i])}

\* C24: for every visited node the deferred-option flush (resolve its
\* deferred option tokens, fill defaults, check requires and conflicts) runs
\* exactly once and against that node before the parser leaves it at a
\* subcommand switch, at Escape or at end of stream: a step that leaves a
\* node leaves none of the option tokens deferred under it unresolved.
C24_FlushedBeforeLeaving ==
    [][old'.command # old.command => PendingOptions(old') = {}]_vars

\* the words after `stop` are --force and --quiet only
OnlyStopOptions ==
    /\ Len(input) >= 1
    /\ input[1] = n_stop
    /\ \A i \in 2..Len(input) : input[i] \in {w_long_force, w_long_quiet}

\* C25: requires is evaluated over the options passed on the command line:
\* a supplied option A whose requires set names B is accepted only if B was
\* also supplied; B present merely through its default does not satisfy
\* it, and the parse then fails with a Requires error.  Here A is --force
\* of `stop` and B is --quiet, False by default.
C25_RequiresSupplied ==
    (/\ old.status \in {"done", "error"}
     /\ OnlyStopOptions
     /\ Supplied(w_long_force))
    => IF Supplied(w_long_quiet)
       THEN old.status = "done"
       ELSE /\ old.status = "error"
            /\ old.error = [exc |-> "ValueError", msg |-> "requires option",
                            names |-> <<n_force, n_quiet>>]

\* the words of the command line of `stop` that are neither an option nor
\* the value of one (force takes no value), in command-line order
PositionalWords ==
    SelectSeq(Tail(input), LAMBDA w : w \in {w_web, w_Nic})

\* C35: for a leaf, the i-th argument token of the command line that is
\* not consumed as an option's value is bound to the i-th declared
\* positional: the bound positionals appear in command-line order wherever
\* option tokens, boolean flags included, are interleaved among them.
C35_PositionalsInOrder ==
    (/\ old.status = "done"
     /\ Len(input) >= 1
     /\ input[1] = n_stop
     /\ \A i \in 2..Len(input) : input[i] \in {w_long_force, w_web, w_Nic})
    => old.positional = [i \in 1..Len(PositionalWords) |-> StrV(PositionalWords[i])]

(***************************************************************************)
(* Claims about the results, the positionals and the option values         *)
(***************************************************************************)
\* the result of the leaf `hello` with its positional bound to "Nic"
hello_Nic == [command |-> "hello", args |-> <<StrV(w_Nic)>>, kwargs |-> <<>>]

C11_Case ==
    /\ app = "app"
    /\ input = <<n_server, n_hello, w_Nic>>
    /\ Terminal(ctx)

\* C11 as stated: [server, hello, Nic] produces exactly two results, the
\* one of group `server`, then the one of leaf `hello` with name = "Nic".
C11_TwoResults ==
    C11_Case => /\ ctx.status = "done"
                /\ ctx.buffer = <<ParsedArgs("server"), hello_Nic>>

\* C11: [server, hello, Nic] produces exactly three results, in this order:
\* the one of the root, the one of group `server`, then the one of leaf
\* `hello` with its positional name bound to "Nic".
C11_TreeTraversal ==
    C11_Case => /\ ctx.status = "done"
                /\ ctx.buffer = <<ParsedArgs("app"), ParsedArgs("server"), hello_Nic>>

\* C11 witness: [server, hello, Nic] has been parsed to its end
C11_Witness ==
    /\ C11_Case
    /\ Len(ctx.buffer) = 3
    /\ ctx.buffer[3] = hello_Nic

\* the commands of a sequence of results
ResultCommands(results) == [i \in 1..Len(results) |-> results[i].command]

\* the nodes registered as subcommands of n
Children(n) == {all_subcommands(n)[k] : k \in DOMAIN all_subcommands(n)}

\* cmds starts at the root, each later node is a registered child of the
\* one before it, and no node is there twice
RootPath(cmds) ==
    /\ Len(cmds) >= 1
    /\ cmds[1] = app
    /\ \A i \in 1..(Len(cmds) - 1) : cmds[i + 1] \in Children(cmds[i])
    /\ \A i, j \in 1..Len(cmds) : cmds[i] = cmds[j] => i = j

\* the results saved so far and the active node are the visited nodes, in
\* visit order; a finished parse has saved the result of the active node last
C23_Visited ==
    /\ ctx.status = "running" =>
           RootPath(ResultCommands(ctx.buffer) \o <<ctx.state.command>>)
    /\ ctx.status = "done" =>
           /\ RootPath(ResultCommands(ctx.buffer))
           /\ ctx.buffer[Len(ctx.buffer)] = ctx.state

\* a step that leaves a node saves the result of that node, and no other
\* step of a parse still running saves or drops a result
C23_SavedOnLeaving ==
    /\ ctx'.state.command # ctx.state.command => ctx'.buffer = Append(ctx.buffer, ctx.state)
    /\ (ctx'.state.command = ctx.state.command /\ ctx'.status = "running") => ctx'.buffer = ctx.buffer
    /\ ctx'.status = "done" => ctx'.buffer = Append(ctx.buffer, ctx.state)

\* C23: a successful parse returns exactly one result per visited node, in
\* visit order: the first result is the root, each later result's command
\* is a registered child of the previous result's command, the last result
\* is the node active at end of input, and no node appears twice.
C23_OneResultPerVisitedNode == []C23_Visited /\ [][C23_SavedOnLeaving]_vars

\* C23 witness: a parse that went from the root to `move` has ended with the
\* results of both
C23_Witness ==
    /\ ctx.status = "done"
    /\ ResultCommands(ctx.buffer) = <<"app", "move">>
    /\ Len(ctx.buffer[2].args) = 1

\* the loop has taken an Escape token from the lexer
EscapeScanned == \E k \in 1..ctx.tokens : from_string(input[k]) = "ESCAPE"

\* C26: after an Escape token has been scanned the active node never
\* changes for the rest of the parse and no later token is resolved as an
\* option or looked up as a subcommand, also when the node active at the
\* Escape has subcommands: every later step leaves the command and the
\* bound options as they were and opens no further result.
C26_EscapeFixesNode ==
    [][EscapeScanned =>
         /\ ctx'.state.command = ctx.state.command
         /\ ctx'.state.kwargs = ctx.state.kwargs
         /\ ctx'.status = "running" => ctx'.buffer = ctx.buffer]_vars

\* the boolean options of the active node
BoolOptions ==
    LET table == ctx.registry[ctx.state.command].all_options IN
    {table[k] : k \in {x \in DOMAIN table : table[x].target_type = "bool"}}

\* the loop is about to take option written with no inline value, by its
\* long name or by its short letter alone
GivenBare(option) ==
    /\ ctx.status = "running"
    /\ CurrentToken # NoToken
    /\ CurrentToken.literal \in {<<"-", "-">> \o option.name, <<"-">> \o option.short}
    /\ PeekedToken.kind # "NOT_IMPLEMENTED"

C34_CursorInRange ==
    /\ ctx.tokens \in 0..Len(input)
    /\ ctx.status = "done" => ctx.tokens = Len(input)

\* a turn of the loop never moves the cursor back; a turn of a running
\* parse moves it forward or ends the parse; a turn on an argument token,
\* which looks ahead and takes no value, moves it by exactly one, unless the
\* leaf after an Escape takes the rest
C34_CursorAdvances ==
    /\ ctx'.tokens >= ctx.tokens
    /\ ctx.status = "running" => (ctx'.tokens > ctx.tokens \/ ctx'.status = "done")
    /\ (ctx.status = "running" /\ CurrentToken # NoToken /\ CurrentToken.kind = "ARGUMENT")
           => ctx'.tokens = ctx.tokens + 1

\* C34: for every finite argument vector the parse loop terminates; across
\* the loop the cursor position never decreases and never exceeds the
\* vector length, a lookahead leaves it unchanged, and when the parse
\* returns normally the cursor is fully exhausted.
C34_LoopTerminates ==
    /\ []C34_CursorInRange
    /\ [][C34_CursorAdvances]_vars
    /\ <>Terminal(ctx)

\* C34 witness: a parse of three words has returned with the cursor at the
\* end, one of the words having been taken as the value of an option
C34_Witness ==
    /\ ctx.status = "done"
    /\ Len(input) = MaxArgs
    /\ ctx.tokens = Len(input)
    /\ \E k \in 1..Len(input) : input[k] = w_p

\* C36: every raw token of the argument vector is consumed exactly once: a
\* token taken as the value of an option is not also taken as the value of
\* another option of the same short stack, is not also bound as a
\* positional or looked up as a subcommand, and consuming it never moves
\* the cursor past a further, unrelated token.  For the stack -po: when the
\* turn binds both options, it has taken two different tokens, one for
\* each, and the cursor is just past them.
C36_StackTakesDistinctTokens ==
    [][(/\ ctx.status = "running"
        /\ CurrentToken # NoToken
        /\ CurrentToken.literal = w_po
        /\ ctx'.status = "running")
       => \E i, j \in (ctx.tokens + 2)..ctx'.tokens :
              /\ i # j
              /\ ctx'.tokens = ctx.tokens + 3
              /\ ctx'.state.kwargs[n_port] = convert(input[i], "int", MISSING).value
              /\ ctx'.state.kwargs[<<"o", "u", "t", "p", "u", "t">>] = StrV(input[j])
              /\ ctx'.state.args = ctx.state.args]_vars

\* the loop is about to hand an argument token to a leaf that has a
\* declared positional left for it
PositionalDue ==
    /\ ctx.status = "running"
    /\ CurrentToken # NoToken
    /\ CurrentToken.kind = "ARGUMENT"
    /\ PeekedToken.kind # "NOT_IMPLEMENTED"
    /\ ~SupportsSubcommands(ctx.state.command)
    /\ Len(ctx.state.args) < Len(ctx.registry[ctx.state.command].positional_arguments)

\* C33: binding a raw string r to a positional whose target type is T
\* yields the same value, or the same conversion failure, as convert(r, T),
\* the conversion used for options.
C33_PositionalUsesConvert ==
    [][PositionalDue =>
         LET argument ==
                 ctx.registry[ctx.state.command].positional_arguments[Len(ctx.state.args) + 1]
             r == convert(CurrentToken.literal, argument.target_type,
                          argument.default_value)
         IN  IF r.ok
             THEN /\ ctx'.status = "running"
                  /\ ctx'.state.args = Append(ctx.state.args, r.value)
             ELSE /\ ctx'.status = "error"
                  /\ ctx'.error = [exc |-> r.exc, msg |-> r.msg, names |-> r.names]]_vars

\* `--all Nic` on the script: all, whose default is unset, is bound to true
\* and Nic is the positional
C27_UnsetWitness ==
    /\ input = <<w_long_all, w_Nic>>
    /\ ctx.status = "done"
    /\ ctx.buffer[1].args = <<StrV(w_Nic)>>
    /\ \E key \in DOMAIN ctx.buffer[1].kwargs : ctx.buffer[1].kwargs[key] = BoolV(TRUE)

o_help == "o_help"
o_port == "o_port"
o_path == "o_path"
Options == {o_help, o_port, o_path}

k_help == "help"
k_h == "h"
k_port == "port"
k_p == "p"
k_path == "path"
OptKeys == {k_help, k_h, k_port, k_p, k_path}

\* Option.name
option_name(o) ==
    CASE o = o_help -> k_help
      [] o = o_port -> k_port
      [] o = o_path -> k_path

\* Option.short (Option.alias in options.py) as the constructor sets it;
\* "None" stands for None and for MISSING
option_short(o) ==
    CASE o = o_help -> k_h
      [] o = o_port -> k_p
      [] o = o_path -> k_p

\* Option.target_type and Option.default_value of DEFAULT_HELP
option_target_type(o) == IF o = o_help THEN "bool" ELSE "int"
option_default_value(o) == IF o = o_help THEN BoolV(FALSE) ELSE MISSING

\* the nodes: the Application and a Group
OptNodes == {"app", "server"}

EmptyTable == [k \in OptKeys |-> "None"]

\* the outcome of a call on the option tables
OptReturned(st, value) == [opt |-> st, exc |-> "", returned |-> value]
OptFailed(st, exc) == [opt |-> st, exc |-> exc, returned |-> "None"]

\* SupportsOptions.add_option(option)
add_option(st, node, option) ==
    LET name == option_name(option)
        short == st.short[option]
        table == st.table[node]
    IN  IF table[name] # "None"
        THEN OptFailed(st, "OptionAlreadyExistsError")
        ELSE
          LET st1 == [st EXCEPT !.table[node][name] = option] IN
          IF short = "None"
          THEN OptReturned(st1, "None")
          ELSE IF st1.table[node][short] # "None"
               THEN OptFailed([st1 EXCEPT !.table[node][name] = "None"],
                              "OptionAlreadyExistsError")
               ELSE OptReturned([st1 EXCEPT !.table[node][short] = option],
                                "None")

\* SupportsOptions.remove_option(name)
remove_option(st, node, name) ==
    LET option == st.table[node][name] IN
    IF option = "None"
    THEN OptFailed(st, "KeyError")
    ELSE
      LET st1 == [st EXCEPT !.table[node][name] = "None"]
          short == st.short[option]
      IN  IF short = "None"
          THEN OptReturned(st1, option)
          ELSE IF name = short
               THEN OptReturned([st1 EXCEPT !.short[option] = "None"], option)
               ELSE IF st1.table[node][short] = "None"
                    THEN OptFailed(st1, "KeyError")
                    ELSE OptReturned(
                             [st1 EXCEPT !.table[node][short] = "None"],
                             option)

\* options.py: remove_option(obj, name)
options_remove_option(st, node, name) ==
    LET option == st.table[node][name] IN
    IF option = "None"
    THEN OptReturned(st, "None")
    ELSE
      LET st1 == [st EXCEPT !.table[node][name] = "None"]
          alias == st.short[option]
          has_alias == alias # "None"
      IN  IF has_alias
          THEN IF name = alias
               THEN OptReturned([st1 EXCEPT !.short[option] = "None"], option)
               ELSE OptReturned([st1 EXCEPT !.table[node][alias] = "None"],
                                option)
          ELSE OptReturned(st1, option)

\* options.py: add_option(obj, option)
options_add_option(st, node, option) ==
    LET name == option_name(option)
        alias == st.short[option]
    IN  IF st.table[node][name] # "None"
        THEN OptFailed(st, "ValueError")
        ELSE
          LET st1 == [st EXCEPT !.table[node][name] = option] IN
          IF alias = "None"
          THEN OptReturned(st1, "None")
          ELSE IF st1.table[node][alias] # "None"
               THEN OptFailed(options_remove_option(st1, node, name).opt,
                              "ValueError")
               ELSE OptReturned([st1 EXCEPT !.table[node][alias] = option],
                                "None")

\* the two code bases behind one call
opt_add(st, node, option) ==
    IF st.impl = "new" THEN add_option(st, node, option)
    ELSE options_add_option(st, node, option)

opt_remove(st, node, name) ==
    IF st.impl = "new" THEN remove_option(st, node, name)
    ELSE options_remove_option(st, node, name)

\* Application.__init__, Group.__init__: an empty table, then
\* add_option(DEFAULT_HELP)
construct(st, node) ==
    LET st0 == [st EXCEPT !.table[node] = EmptyTable, !.built[node] = TRUE]
    IN  opt_add(st0, node, o_help)

OptCall(op, node, arg, result) ==
    [op |-> op, node |-> node, arg |-> arg, before |-> opt,
     exc |-> result.exc, returned |-> result.returned]

InitOpt ==
    /\ app = "app"
    /\ run = IdleRun
    /\ input = <<>>
    /\ ctx = ParserContext(app)
    /\ reg = IdleReg
    /\ conv = IdleConv
    /\ old = IdleOld
    /\ call = [op |-> "none", node |-> "None", arg |-> "None",
               before |-> IdleOpt, exc |-> "", returned |-> "None"]
    /\ \E impl \in {"new", "old"} :
           opt = [impl |-> impl,
                  short |-> [o \in Options |-> option_short(o)],
                  table |-> [n \in OptNodes |-> EmptyTable],
                  built |-> [n \in OptNodes |-> FALSE],
                  touched |-> [n \in OptNodes |-> FALSE]]

\* the construction of a node
Construct ==
    \E node \in OptNodes :
        /\ ~opt.built[node]
        /\ LET result == construct(opt, node) IN
           /\ opt' = result.opt
           /\ call' = OptCall("construct", node, "None", result)
        /\ UNCHANGED <<app, input, ctx, reg, conv, old, run>>

\* a call node.add_option(option)
AddOption ==
    \E node \in OptNodes : \E option \in Options :
        /\ opt.built[node]
        /\ LET result == opt_add(opt, node, option) IN
           /\ opt' = [result.opt EXCEPT !.touched[node] = TRUE]
           /\ call' = OptCall("add_option", node, option, result)
        /\ UNCHANGED <<app, input, ctx, reg, conv, old, run>>

\* a call node.remove_option(name)
RemoveOption ==
    \E node \in OptNodes : \E name \in OptKeys :
        /\ opt.built[node]
        /\ LET result == opt_remove(opt, node, name) IN
           /\ opt' = [result.opt EXCEPT !.touched[node] = TRUE]
           /\ call' = OptCall("remove_option", node, name, result)
        /\ UNCHANGED <<app, input, ctx, reg, conv, old, run>>

NextOpt ==
    \/ Construct
    \/ AddOption
    \/ RemoveOption

SpecOpt == InitOpt /\ [][NextOpt]_vars

\* the call made last was add_option on `node` and it raised
FailedAddOption == call.op = "add_option" /\ call.exc # ""

\* C12: when add_option(o) fails because o's name or o's short alias is
\* already a key of the node's option table, the table after the call is the
\* table before the call: neither o's name nor o's alias stays inserted and
\* no existing key is removed or remapped.
C12_FailedAddOptionRestoresTable ==
    FailedAddOption => opt.table[call.node] = call.before.table[call.node]

\* C17: every node with subcommands owns, from the end of its construction
\* on, a boolean option keyed `help` with the alias key `h` and the default
\* false, whatever add_option and remove_option calls were made on other
\* nodes before or after its construction.
C17_OwnsHelp ==
    \A node \in OptNodes :
        (opt.built[node] /\ ~opt.touched[node]) =>
            /\ opt.table[node][k_help] = o_help
            /\ opt.table[node][k_h] = o_help
            /\ option_target_type(o_help) = "bool"
            /\ option_default_value(o_help) = BoolV(FALSE)

\* C19: remove_option(name) called with a name that is not a key of the
\* node returns None and leaves the node's table unchanged; it does not
\* raise.
C19_RemoveMissingReturnsNone ==
    (/\ call.op = "remove_option"
     /\ call.before.table[call.node][call.arg] = "None") =>
        /\ call.exc = ""
        /\ call.returned = "None"
        /\ opt.table[call.node] = call.before.table[call.node]

\* the call made last was remove_option with a key of the node; the object
\* under that key and the node's table before and after the call
Removing == call.op = "remove_option" /\ call.before.table[call.node][call.arg] # "None"
RemovedOption == call.before.table[call.node][call.arg]
TableBefore == call.before.table[call.node]
TableAfter == opt.table[call.node]

\* C20: remove_option called with an alias removes only that alias key and
\* clears the alias on the object, which stays under its canonical name;
\* called with the canonical name it removes the object with every one of
\* its alias keys; in both cases no key of another object is touched.
C20_RemoveByAliasOrName ==
    Removing =>
        /\ call.exc = ""
        /\ \A k \in OptKeys : TableBefore[k] # RemovedOption => TableAfter[k] = TableBefore[k]
        /\ IF call.arg # option_name(RemovedOption)
           THEN /\ TableAfter[call.arg] = "None"
                /\ \A k \in OptKeys \ {call.arg} : TableAfter[k] = TableBefore[k]
                /\ opt.short[RemovedOption] = "None"
           ELSE \A k \in OptKeys : TableBefore[k] = RemovedOption => TableAfter[k] = "None"

\* the results so far: the finished ones and the one being filled
Results(c) == IF c.status = "done" THEN c.buffer ELSE Append(c.buffer, c.state)

\* the positionals the command of a result declares
Declared(result) ==
    IF SupportsSubcommands(result.command) THEN 0
    ELSE Len(positional_arguments(result.command))

C13_Bounded ==
    \A i \in 1..Len(Results(ctx)) :
        Len(Results(ctx)[i].args) <= Declared(Results(ctx)[i])

\* an ARGUMENT token is handed to the handler while the command is a leaf
\* whose declared positionals are all filled
C13_Full ==
    /\ ctx.status = "running"
    /\ CurrentToken.kind = "ARGUMENT"
    /\ PeekedToken.kind # "NOT_IMPLEMENTED"
    /\ ~SupportsSubcommands(ctx.state.command)
    /\ Len(ctx.state.args) = Declared(ctx.state)

C13_TooMany ==
    C13_Full =>
        /\ ctx'.status = "error"
        /\ ctx'.error.exc = "ArgumentError"
        /\ ctx'.error.msg = too_many_arguments(Declared(ctx.state),
                                               Declared(ctx.state) + 1)
        /\ ctx'.state = ctx.state
        /\ ctx'.buffer = ctx.buffer

NamedWithoutValue ==
    LET table == all_options(ctx.state.command)
        literal == CurrentToken.literal
    IN  IF CurrentToken.kind = "LONG"
        THEN {table[k] : k \in {k \in DOMAIN table : literal = <<"-", "-">> \o k}}
        ELSE IF CurrentToken.kind = "SHORT"
        THEN {table[k] : k \in {k \in DOMAIN table : literal = <<"-">> \o k}}
        ELSE {}

\* the token after the current one is no ARGUMENT token: the input ends, or
\* an option, the escape or the stdin token follows
NoValueFollows == PeekedToken.kind \in {"None", "LONG", "SHORT", "ESCAPE", "STDIN"}

C14_Case(option) ==
    /\ ctx.status = "running"
    /\ option \in NamedWithoutValue
    /\ option.target_type # "bool"
    /\ NoValueFollows

\* C14: a non-boolean option given with no inline value and followed by no
\* ARGUMENT token (end of input, an option, the escape or the stdin token)
\* aborts the parse with the error "expected value for option '<name>'" and
\* nothing is bound for it.
C14_ExpectedValue ==
    [][\A option \in NamedWithoutValue :
           C14_Case(option) =>
               /\ ctx'.status = "error"
               /\ ctx'.error.exc = "ArgumentError"
               /\ ctx'.error.msg = "expected value for option"
               /\ ctx'.error.names = <<option.name>>
               /\ ctx'.state.kwargs = ctx.state.kwargs]_vars

\* C16: a parse, whether it succeeds or fails, leaves the registry as it
\* was built: no option table, subcommand table or positional list of a
\* node and no field of an Option or positional object changes; what
\* changes is the cursor, the state and the buffer of the parser context.
C16_RegistryUnchanged == ctx.registry = Registry

\* C16 witness: a parse that went down to a leaf and bound an option and a
\* positional there has ended
C16_Witness ==
    /\ ctx.status = "done"
    /\ Len(ctx.buffer) = 2
    /\ ctx.buffer[2].kwargs # <<>>
    /\ ctx.buffer[2].args # <<>>

\* the six rules of the token classification, in their order
six_rules(raw) ==
    IF raw = <<"-", "-">> THEN "ESCAPE"
    ELSE IF startswith(raw, <<"-", "-">>) THEN "LONG"
    ELSE IF raw = <<"-">> THEN "STDIN"
    ELSE IF Len(raw) >= 2 /\ raw[1] = "-" /\ isalpha(raw[2]) THEN "SHORT"
    ELSE IF Len(raw) >= 2 /\ raw[1] = "-" /\ isnumeric(raw[2]) THEN "ARGUMENT"
    ELSE "ARGUMENT"

\* C18: the token classification is total and follows the six rules in
\* their order: `--` is the escape, any other string starting with `--` a
\* long option, `-` the stdin token, `-` and a letter a short-option stack,
\* `-` and a digit an argument, and every other string, one that starts
\* with `-` and a character that is neither a letter nor a digit included,
\* an argument.
C18_ClassificationTotal ==
    \A i \in 1..Len(input) : from_string(input[i]) = six_rules(input[i])

\* the number of letters a string starts with
RECURSIVE LeadingLetters(_)
LeadingLetters(s) ==
    IF s = <<>> \/ ~isalpha(Head(s)) THEN 0 ELSE 1 + LeadingLetters(Tail(s))

\* what follows the letters of a stack
AfterLetters(remainder) == slice_from(remainder, LeadingLetters(remainder))

\* a well-formed short stack: `-`, letters, and then nothing, digits to the
\* end, or `=` and a value
WellFormedStack(raw) ==
    /\ Len(raw) >= 2
    /\ raw[1] = "-"
    /\ LeadingLetters(Tail(raw)) >= 1
    /\ LET rest == AfterLetters(Tail(raw)) IN
       rest = <<>> \/ isnumeric_str(rest) \/ Head(rest) = "="

\* the pairs of a well-formed stack: a flag per letter, the value with the
\* last letter
StackPairs(raw) ==
    LET remainder == Tail(raw)
        n == LeadingLetters(remainder)
        rest == AfterLetters(remainder)
        value == IF rest # <<>> /\ Head(rest) = "=" THEN Tail(rest) ELSE rest
    IN  [i \in 1..n |-> RawOption(<<remainder[i]>>, IF i = n THEN value ELSE <<>>)]

C39_NoDanglingKey ==
    opt.impl = "new"
    => \A node \in OptNodes : \A key \in OptKeys :
           LET option == opt.table[node][key] IN
           option # "None"
           => \/ option_name(option) = key
              \/ opt.short[option] = key

(***************************************************************************)
(* parser.py: parse(), the entry point that parses and then dispatches     *)
(***************************************************************************)
\* SupportsSubcommands.invoke_without_subcommand: False unless the group
\* was built with invoke_without_subcommand=True, as `server` is here
invoke_without_subcommand(n) == n = "server"

\* SupportsOptions.options: the options without their alias entries
options(n) == declared_options(n)

\* util.snake_case(option.name)
snake_case(name) == replace_char(name, "-", "_")

\* result.kwargs.pop("help", False)
kwargs_pop(kwargs, key) == [k \in DOMAIN kwargs \ {key} |-> kwargs[k]]
kwargs_get(kwargs, key, default) == IF key \in DOMAIN kwargs THEN kwargs[key] ELSE default

\* the positionals and the options of a result's command that have no
\* default and are not bound
missing_required(result) ==
    LET command == result.command
        args == IF SupportsSubcommands(command) THEN <<>>
                ELSE positional_arguments(command)
        required_args == {i \in 1..Len(args) : args[i].default_value = MISSING}
        opts == options(command)
    IN  \/ Len(result.args) < Cardinality(required_args)
        \/ \E i \in 1..Len(opts) :
               /\ opts[i].default_value = MISSING
               /\ snake_case(opts[i].name) \notin DOMAIN result.kwargs

\* parse() before _parse_app has ended
StartRun ==
    [phase |-> "parsing", results |-> <<>>, index |-> 0, invoked |-> <<>>,
     printed |-> <<>>, retval |-> "None", exit |-> "none"]

\* parse() that hands the results found so far to the dispatch when
\* _parse_app raises
parse_outcome_partial(r, c) ==
    [r EXCEPT !.phase = "dispatch", !.results = c.buffer]

\* the try around _parse_app: the results are returned, an ArgumentError is
\* printed and the process exits with 1, any other exception propagates
parse_outcome(r, c) ==
    IF c.status = "done"
    THEN [r EXCEPT !.phase = "dispatch", !.results = c.buffer]
    ELSE IF c.error.exc = "ArgumentError"
    THEN [r EXCEPT !.phase = "exited", !.exit = "1",
                   !.printed = Append(@, <<"error", c.error.msg>>)]
    ELSE [r EXCEPT !.phase = "raised", !.exit = c.error.exc]

\* one turn of `for result in results`, or its `else` when the results are
\* exhausted; outcome is what the callback does when it is called
dispatch_step(r, outcome) ==
    IF r.index >= Len(r.results)
    THEN LET result == r.results[Len(r.results)] IN
         IF SupportsSubcommands(result.command)
            /\ ~invoke_without_subcommand(result.command)
         THEN [r EXCEPT !.phase = "exited", !.exit = "1",
                        !.printed = Append(@, <<"help", result.command>>)]
         ELSE [r EXCEPT !.phase = "returned"]
    ELSE
      LET i == r.index + 1
          result == r.results[i]
          help == kwargs_get(result.kwargs, n_help, BoolV(FALSE))
          r1 == [r EXCEPT !.results[i].kwargs = kwargs_pop(@, n_help)]
          popped == r1.results[i]
      IN  IF truthy(help)
          THEN [r1 EXCEPT !.phase = "returned", !.retval = "None",
                          !.printed = Append(@, <<"help", result.command>>)]
          ELSE IF SupportsSubcommands(result.command)
                  /\ ~invoke_without_subcommand(result.command)
          THEN [r1 EXCEPT !.index = i]
          ELSE IF missing_required(popped)
          THEN [r1 EXCEPT !.phase = "exited", !.exit = "1",
                          !.printed = Append(@, <<"usage", result.command>>)]
          ELSE IF outcome = "UserError"
          THEN [r1 EXCEPT !.phase = "exited", !.exit = "1",
                          !.invoked = Append(@, popped),
                          !.printed = Append(@, <<"error", "UserError">>)]
          ELSE [r1 EXCEPT !.index = i, !.retval = result.command,
                          !.invoked = Append(@, popped)]

w_long_help == <<"-", "-">> \o n_help

\* the raw arguments tried against parse(): those of the parser and --help
RunWords(root) == Words(root) \cup {w_long_help}

InitRun ==
    /\ app \in {"app", "script"}
    /\ input \in Vectors(RunWords(app), MaxArgs)
    /\ ctx = ParserContext(app)
    /\ reg = IdleReg
    /\ call = IdleCall
    /\ conv = IdleConv
    /\ old = IdleOld
    /\ opt = IdleOpt
    /\ run = StartRun

\* _parse_app has ended: parse() takes its results or handles what it raised
ParseEnds ==
    /\ run.phase = "parsing"
    /\ Terminal(ctx)
    /\ run' = parse_outcome(run, ctx)
    /\ UNCHANGED <<app, input, ctx, reg, call, conv, old, opt>>

Dispatching == run.phase = "dispatch" /\ run.index < Len(run.results)
CurrentResult == run.results[run.index + 1]
Skipped(result) ==
    SupportsSubcommands(result.command) /\ ~invoke_without_subcommand(result.command)
HelpBound(result) == truthy(kwargs_get(result.kwargs, n_help, BoolV(FALSE)))

\* a turn of the loop that finds `help` bound: the help message, return
DispatchHelp ==
    /\ Dispatching
    /\ HelpBound(CurrentResult)
    /\ run' = dispatch_step(run, "returns")
    /\ UNCHANGED <<app, input, ctx, reg, call, conv, old, opt>>

\* a turn of the loop on a command that is not invoked without a subcommand
DispatchContinue ==
    /\ Dispatching
    /\ ~HelpBound(CurrentResult)
    /\ Skipped(CurrentResult)
    /\ run' = dispatch_step(run, "returns")
    /\ UNCHANGED <<app, input, ctx, reg, call, conv, old, opt>>

\* a turn of the loop that misses a required argument: usage, exit
DispatchUsage ==
    /\ Dispatching
    /\ ~HelpBound(CurrentResult)
    /\ ~Skipped(CurrentResult)
    /\ missing_required(CurrentResult)
    /\ run' = dispatch_step(run, "returns")
    /\ UNCHANGED <<app, input, ctx, reg, call, conv, old, opt>>

\* a turn of the loop that calls the command; the callback returns or
\* raises a UserError
DispatchInvoke ==
    /\ Dispatching
    /\ ~HelpBound(CurrentResult)
    /\ ~Skipped(CurrentResult)
    /\ ~missing_required(CurrentResult)
    /\ \E outcome \in {"returns", "UserError"} :
           run' = dispatch_step(run, outcome)
    /\ UNCHANGED <<app, input, ctx, reg, call, conv, old, opt>>

\* the `else` of the loop: help and exit for a group that does not run
\* alone, otherwise the return of retval
DispatchEnd ==
    /\ run.phase = "dispatch"
    /\ run.index >= Len(run.results)
    /\ run' = dispatch_step(run, "returns")
    /\ UNCHANGED <<app, input, ctx, reg, call, conv, old, opt>>

NextRun ==
    \/ Next
    \/ ParseEnds
    \/ DispatchHelp
    \/ DispatchContinue
    \/ DispatchUsage
    \/ DispatchInvoke
    \/ DispatchEnd

SpecRun == InitRun /\ [][NextRun]_vars

\* C37: if help is bound true in the result of any node on the parsed
\* path, the dispatcher renders that node's help and returns without
\* invoking the callback of any node on the path, including the groups
\* earlier on the path that are invoked without a subcommand.
C37_HelpInvokesNothing ==
    (/\ ctx.status = "done"
     /\ run.phase \in {"dispatch", "returned", "exited"}
     /\ \E k \in 1..Len(ctx.buffer) : HelpBound(ctx.buffer[k]))
    => /\ run.invoked = <<>>
       /\ run.phase # "exited"
       /\ run.phase = "returned"
            => \E k \in 1..Len(ctx.buffer) :
                   /\ HelpBound(ctx.buffer[k])
                   /\ run.printed = <<<<"help", ctx.buffer[k].command>>>>

\* every positional of the result's command that has no default has a value
\* at its own position, and every option that has no default is bound
RequiredBound(result) ==
    LET command == result.command
        args == IF SupportsSubcommands(command) THEN <<>>
                ELSE positional_arguments(command)
        opts == options(command)
    IN  /\ \A i \in 1..Len(args) :
               args[i].default_value = MISSING => i <= Len(result.args)
        /\ \A i \in 1..Len(opts) :
               opts[i].default_value = MISSING
               => snake_case(opts[i].name) \in DOMAIN result.kwargs

\* C38: the dispatcher invokes a node's callback only if every declared
\* positional of that node that has no default has a bound value at its own
\* position and every option of that node that has no default is bound;
\* otherwise it prints usage and exits non-zero, and no callback of any node
\* on the path has been invoked by then.
C38_InvokedOnlyWhenBound ==
    /\ \A k \in 1..Len(run.invoked) : RequiredBound(run.invoked[k])
    /\ (\E k \in 1..Len(run.printed) : run.printed[k][1] = "usage")
       => /\ run.phase = "exited"
          /\ run.exit = "1"
          /\ run.invoked = <<>>

\* C15: when a token of the argument vector causes a parse error (unknown
\* option, unknown command, too many arguments, missing option value,
\* conversion failure), parse() gets no result list, not even the results
\* of the nodes completed before the failing token, and calls no callback.
C15_NoPartialResults ==
    (ctx.status = "error" /\ run.phase # "parsing") =>
        /\ run.phase \in {"exited", "raised"}
        /\ run.results = <<>>
        /\ run.invoked = <<>>

\* C15 witness: the parse failed after a node was completed and parse()
\* has handled the failure
C15_Witness ==
    /\ ctx.status = "error"
    /\ Len(ctx.buffer) >= 1
    /\ run.phase = "exited"

\* a malformed argument: `-` followed by a symbol, or a short stack in
\* which a letter is followed by a character that is neither a letter, a
\* digit nor `=`
MalformedArgument(raw) ==
    /\ Len(raw) >= 2
    /\ raw[1] = "-"
    /\ \/ ~isalpha(raw[2]) /\ ~isnumeric(raw[2]) /\ raw[2] # "-"
       \/ /\ isalpha(raw[2])
          /\ LET rest == AfterLetters(Tail(raw)) IN
             rest # <<>> /\ ~isnumeric(Head(rest)) /\ Head(rest) # "="

\* C29: a malformed argument is rejected with the library's argument
\* error, which parse reports as a user error (message and exit status 1);
\* it never escapes as a different exception kind and is never silently
\* accepted.
C29_MalformedIsUserError ==
    ((\E i \in 1..Len(input) : MalformedArgument(input[i])) /\ Terminal(ctx)) =>
        /\ ctx.status = "error"
        /\ ctx.error.exc = "ArgumentError"
        /\ run.phase \in {"parsing", "exited"}

====
